---- MODULE Spec2Model ----
(***************************************************************************)
(* x-weird-for: HTTP header anomaly detection.                             *)
(*                                                                         *)
(* The module models the feature extractor (xweirdfor/extract_features.py),*)
(* the heuristic analyzer (xweirdfor/heuristics.py) and the prediction     *)
(* aggregator (scripts/predict.py).                                        *)
(*                                                                         *)
(* Representation.  A Python str is a sequence of one-character strings.   *)
(* A HeaderSet (an insertion-ordered dict) is a sequence of records        *)
(* [name, value] with pairwise distinct names.  A real number is an exact  *)
(* rational <<numerator, denominator>> with a positive denominator; the    *)
(* weights and severities of the source's tables are written in tenths.    *)
(* math.log2 and math.sqrt are computed in fixed point (thousandths and    *)
(* hundredths).  Regular expressions are sequences of quantified character *)
(* classes and anchors, matched by a backtracking search as re.search does.*)
(* The risk scores of the analyzer and the decision values of the models   *)
(* are whole thousandths, summed exactly; the floats of the code differ    *)
(* from these sums by rounding errors of the order of 1e-16.  The clock is *)
(* counted in days since 1970-01-01.                                       *)
(***************************************************************************)
EXTENDS Integers, Sequences, FiniteSets, TLC

VARIABLES header_dict, features, heuristics, model_data, votes, ml_result, result, pc,
          tables, inputs, workers, frames,
          args, header_sets, index, all_results, output_data

\* the state of concurrent callers: the module-level tables, the HeaderSet each
\* worker passes, the position of each worker and the locals of each call
workerVars == <<tables, inputs, workers, frames>>

\* the state of main's loop over a batch: the command line, the header sets of
\* the input file, the position of enumerate, the results collected for saving
\* and the contents of the saved file
batchVars == <<args, header_sets, index, all_results, output_data>>

vars == <<header_dict, features, heuristics, model_data, votes, ml_result, result, pc,
          workerVars, batchVars>>

(***************************************************************************)
(* Characters and str methods                                              *)
(***************************************************************************)
CR == "\r"
LF == "\n"
TAB == "\t"
\* the character U+0000, written as a token of its own
NUL == "NUL"

UpperAlpha == <<"A","B","C","D","E","F","G","H","I","J","K","L","M","N","O","P","Q","R","S","T","U","V","W","X","Y","Z">>
LowerAlpha == <<"a","b","c","d","e","f","g","h","i","j","k","l","m","n","o","p","q","r","s","t","u","v","w","x","y","z">>

Range(s) == {s[i] : i \in 1..Len(s)}

UpperChars == Range(UpperAlpha)
LowerChars == Range(LowerAlpha)
Digits == Range(<<"0","1","2","3","4","5","6","7","8","9">>)
HexDigits == Digits \cup Range(<<"a","b","c","d","e","f","A","B","C","D","E","F">>)
WordChars == UpperChars \cup LowerChars \cup Digits \cup {"_"}
Base64Chars == UpperChars \cup LowerChars \cup Digits \cup {"+", "/"}
\* the class \s of the re module, for str patterns
Whitespace == {" ", TAB, LF, CR, "\f"}

LowerChar(c) ==
    IF c \in UpperChars
    THEN LowerAlpha[CHOOSE i \in 1..Len(UpperAlpha) : UpperAlpha[i] = c]
    ELSE c

UpperChar(c) ==
    IF c \in LowerChars
    THEN UpperAlpha[CHOOSE i \in 1..Len(LowerAlpha) : LowerAlpha[i] = c]
    ELSE c

\* str.lower()
lower(s) == <<>> \o [i \in 1..Len(s) |-> LowerChar(s[i])]

\* str.islower(): at least one cased character and no uppercase one
islower(s) ==
    /\ \E i \in 1..Len(s) : s[i] \in LowerChars
    /\ \A i \in 1..Len(s) : s[i] \notin UpperChars

\* str.isupper(): at least one cased character and no lowercase one
isupper(s) ==
    /\ \E i \in 1..Len(s) : s[i] \in UpperChars
    /\ \A i \in 1..Len(s) : s[i] \notin LowerChars

\* str.startswith(prefix)
startswith(s, prefix) ==
    /\ Len(prefix) <= Len(s)
    /\ SubSeq(s, 1, Len(prefix)) = prefix

\* the `in` operator on two str: sub occurs in s
contains(s, sub) ==
    \E i \in 1..(Len(s) - Len(sub) + 1) : SubSeq(s, i, i + Len(sub) - 1) = sub

\* s[k:] with a 0-based k
Tail0(s, k) == SubSeq(s, k + 1, Len(s))

\* str.split('-'): the maximal hyphen-free pieces, empty ones included
RECURSIVE split(_, _)
split(s, sep) ==
    IF \A i \in 1..Len(s) : s[i] # sep
    THEN <<s>>
    ELSE LET i == CHOOSE j \in 1..Len(s) :
                      s[j] = sep /\ \A k \in 1..(j - 1) : s[k] # sep
         IN <<SubSeq(s, 1, i - 1)>> \o split(SubSeq(s, i + 1, Len(s)), sep)

(***************************************************************************)
(* Exact rationals                                                         *)
(***************************************************************************)
Q(n, d) == <<n, d>>
QInt(n) == <<n, 1>>
QEq(a, b) == a[1] * b[2] = b[1] * a[2]
QLe(a, b) == a[1] * b[2] <= b[1] * a[2]
QLt(a, b) == a[1] * b[2] < b[1] * a[2]
QIsZero(a) == a[1] = 0
QMax(a, b) == IF QLt(a, b) THEN b ELSE a

Max(a, b) == IF a < b THEN b ELSE a
Min(a, b) == IF a < b THEN a ELSE b
Abs(a) == IF a < 0 THEN 0 - a ELSE a

RECURSIVE SumSeq(_)
SumSeq(s) == IF s = <<>> THEN 0 ELSE s[1] + SumSeq(Tail(s))

RECURSIVE MaxSeq(_)
MaxSeq(s) == IF Len(s) = 1 THEN s[1] ELSE Max(s[1], MaxSeq(Tail(s)))

RECURSIVE MinSeq(_)
MinSeq(s) == IF Len(s) = 1 THEN s[1] ELSE Min(s[1], MinSeq(Tail(s)))

\* floor of the square root, by bisection on lo..hi
RECURSIVE ISqrtIn(_, _, _)
ISqrtIn(n, lo, hi) ==
    IF lo >= hi
    THEN lo
    ELSE LET mid == (lo + hi + 1) \div 2
         IN IF mid * mid <= n THEN ISqrtIn(n, mid, hi) ELSE ISqrtIn(n, lo, mid - 1)

\* math.sqrt in whole units of its argument's square root; the arguments of
\* the model stay below 46340^2
ISqrt(n) == ISqrtIn(n, 0, Min(n, 46340))

\* math.log2 on 1..48, in thousandths
Log2Milli ==
    << 0, 1000, 1585, 2000, 2322, 2585, 2807, 3000, 3170, 3322, 3459, 3585,
       3700, 3807, 3907, 4000, 4087, 4170, 4248, 4322, 4392, 4459, 4524, 4585,
       4644, 4700, 4755, 4807, 4858, 4907, 4954, 5000, 5044, 5087, 5129, 5170,
       5209, 5248, 5285, 5322, 5358, 5392, 5426, 5459, 5492, 5524, 5555, 5585 >>

(***************************************************************************)
(* Regular expressions: re.search, re.findall                              *)
(***************************************************************************)
\* a character class with a repetition range; hi = -1 is "no upper limit"
Cls(set, neg, lo, hi) == [k |-> "cls", set |-> set, neg |-> neg, lo |-> lo, hi |-> hi]
Ch(set) == Cls(set, FALSE, 1, 1)
\* `.` matches anything but a newline
Dot(lo, hi) == Cls({LF}, TRUE, lo, hi)
\* ^, $ and \b
Bos == [k |-> "bos", set |-> {}, neg |-> FALSE, lo |-> 0, hi |-> 0]
Eos == [k |-> "eos", set |-> {}, neg |-> FALSE, lo |-> 0, hi |-> 0]
Wb == [k |-> "wb", set |-> {}, neg |-> FALSE, lo |-> 0, hi |-> 0]
\* a literal text
Lit(t) == [i \in 1..Len(t) |-> Ch({t[i]})]

InClass(c, atom, ignorecase) ==
    LET hit == \/ c \in atom.set
               \/ ignorecase /\ (LowerChar(c) \in atom.set \/ UpperChar(c) \in atom.set)
    IN hit # atom.neg

IsWordAt(s, i) == i >= 1 /\ i <= Len(s) /\ s[i] \in WordChars

\* the atoms k.. of re match s from position i (1-based) on
RECURSIVE MatchFrom(_, _, _, _, _)
MatchFrom(re, ignorecase, s, k, i) ==
    IF k > Len(re)
    THEN TRUE
    ELSE LET a == re[k]
         IN CASE a.k = "bos" -> i = 1 /\ MatchFrom(re, ignorecase, s, k + 1, i)
              [] a.k = "eos" ->
                    /\ \/ i = Len(s) + 1
                       \/ i = Len(s) /\ s[i] = LF
                    /\ MatchFrom(re, ignorecase, s, k + 1, i)
              [] a.k = "wb" ->
                    /\ IsWordAt(s, i - 1) # IsWordAt(s, i)
                    /\ MatchFrom(re, ignorecase, s, k + 1, i)
              [] OTHER ->
                    LET avail == Len(s) - i + 1
                        top == IF a.hi = -1 THEN avail ELSE Min(a.hi, avail)
                    IN \E n \in a.lo..top :
                          /\ \A j \in i..(i + n - 1) : InClass(s[j], a, ignorecase)
                          /\ MatchFrom(re, ignorecase, s, k + 1, i + n)

\* re.search(pattern, s) / re.search(pattern, s, re.IGNORECASE) is not None
re_search(re, s, ignorecase) ==
    \E i \in 1..(Len(s) + 1) : MatchFrom(re, ignorecase, s, 1, i)

\* the number of characters a pattern of fixed repetitions matches
ReWidth(re) == SumSeq([k \in 1..Len(re) |-> re[k].lo])

\* len(re.findall(pattern, s)) for a pattern of fixed width: the scan for the
\* next match resumes after each match
RECURSIVE FindallCount(_, _, _)
FindallCount(re, s, i) ==
    IF i > Len(s)
    THEN 0
    ELSE IF /\ i + ReWidth(re) - 1 <= Len(s)
            /\ MatchFrom(re, FALSE, SubSeq(s, i, i + ReWidth(re) - 1), 1, 1)
         THEN 1 + FindallCount(re, s, i + ReWidth(re))
         ELSE FindallCount(re, s, i + 1)

(***************************************************************************)
(* Header names of the tables and HeaderSet access                         *)
(***************************************************************************)
HOST == <<"H","o","s","t">>
USER_AGENT == <<"U","s","e","r","-","A","g","e","n","t">>
ACCEPT == <<"A","c","c","e","p","t">>
ACCEPT_ENCODING == <<"A","c","c","e","p","t","-","E","n","c","o","d","i","n","g">>
ACCEPT_LANGUAGE == <<"A","c","c","e","p","t","-","L","a","n","g","u","a","g","e">>
CONNECTION == <<"C","o","n","n","e","c","t","i","o","n">>
CONTENT_TYPE == <<"C","o","n","t","e","n","t","-","T","y","p","e">>
CONTENT_LENGTH == <<"C","o","n","t","e","n","t","-","L","e","n","g","t","h">>
REFERER == <<"R","e","f","e","r","e","r">>
COOKIE == <<"C","o","o","k","i","e">>
AUTHORIZATION == <<"A","u","t","h","o","r","i","z","a","t","i","o","n">>
CACHE_CONTROL == <<"C","a","c","h","e","-","C","o","n","t","r","o","l">>
X_FORWARDED_FOR == <<"X","-","F","o","r","w","a","r","d","e","d","-","F","o","r">>
X_REAL_IP == <<"X","-","R","e","a","l","-","I","P">>
X_FORWARDED_PROTO == <<"X","-","F","o","r","w","a","r","d","e","d","-","P","r","o","t","o">>

\* list(d.keys()), list(d.values())
Keys(d) == [i \in 1..Len(d) |-> d[i].name]
Values(d) == [i \in 1..Len(d) |-> d[i].value]

\* key in d
HasKey(d, key) == \E i \in 1..Len(d) : d[i].name = key

\* d.get(key, default)
Get(d, key, default) ==
    IF HasKey(d, key)
    THEN d[CHOOSE i \in 1..Len(d) : d[i].name = key].value
    ELSE default

\* d[key] = value: a new key goes to the end, a known key keeps its place
SetItem(d, key, value) ==
    IF HasKey(d, key)
    THEN [i \in 1..Len(d) |-> IF d[i].name = key
                              THEN [name |-> key, value |-> value]
                              ELSE d[i]]
    ELSE Append(d, [name |-> key, value |-> value])

\* list.index(x), 0-based
Index0(s, x) == (CHOOSE i \in 1..Len(s) : s[i] = x /\ \A j \in 1..(i - 1) : s[j] # x) - 1

(***************************************************************************)
(* xweirdfor/extract_features.py                                           *)
(***************************************************************************)
\* weights in tenths
EXPECTED_HEADERS ==
    << [header |-> HOST, weight |-> 20],
       [header |-> USER_AGENT, weight |-> 20],
       [header |-> ACCEPT, weight |-> 15],
       [header |-> ACCEPT_ENCODING, weight |-> 15],
       [header |-> ACCEPT_LANGUAGE, weight |-> 15],
       [header |-> CONNECTION, weight |-> 15],
       [header |-> CONTENT_TYPE, weight |-> 10],
       [header |-> CONTENT_LENGTH, weight |-> 10],
       [header |-> REFERER, weight |-> 10],
       [header |-> COOKIE, weight |-> 10],
       [header |-> AUTHORIZATION, weight |-> 10],
       [header |-> CACHE_CONTROL, weight |-> 10],
       [header |-> X_FORWARDED_FOR, weight |-> 8],
       [header |-> X_REAL_IP, weight |-> 8],
       [header |-> X_FORWARDED_PROTO, weight |-> 8] >>

Word(t) == <<Wb>> \o Lit(t) \o <<Wb>>

\* severities in tenths
SUSPICIOUS_UA_PATTERNS ==
    << [pattern |-> Word(<<"c","u","r","l">>), severity |-> 10],
       [pattern |-> Word(<<"w","g","e","t">>), severity |-> 10],
       [pattern |-> Word(<<"p","y","t","h","o","n","-","r","e","q","u","e","s","t","s">>), severity |-> 10],
       [pattern |-> Word(<<"s","c","r","a","p","y">>), severity |-> 10],
       [pattern |-> Word(<<"G","o","-","h","t","t","p","-","c","l","i","e","n","t">>), severity |-> 10],
       [pattern |-> Word(<<"b","o","t">>), severity |-> 7],
       [pattern |-> Word(<<"s","p","i","d","e","r">>), severity |-> 7],
       [pattern |-> Word(<<"c","r","a","w","l","e","r">>), severity |-> 7],
       [pattern |-> Word(<<"s","c","r","a","p","e","r">>), severity |-> 7],
       [pattern |-> Word(<<"J","a","v","a">>), severity |-> 4],
       [pattern |-> Word(<<"R","u","b","y">>), severity |-> 4],
       [pattern |-> Word(<<"P","e","r","l">>), severity |-> 4] >>

OneOrMore(set) == <<Cls(set, FALSE, 1, -1)>>

LEGITIMATE_UA_PATTERNS ==
    << Lit(<<"M","o","z","i","l","l","a","/","5",".","0">>),
       Lit(<<"A","p","p","l","e","W","e","b","K","i","t">>),
       Lit(<<"C","h","r","o","m","e","/">>) \o OneOrMore(Digits),
       Lit(<<"S","a","f","a","r","i","/">>) \o OneOrMore(Digits),
       Lit(<<"F","i","r","e","f","o","x","/">>) \o OneOrMore(Digits),
       Lit(<<"E","d","g","e","/">>) \o OneOrMore(Digits) >>

\* Counter(text): the number of occurrences of c in text
CharCount(text, c) == Cardinality({i \in 1..Len(text) : text[i] = c})

\* Shannon entropy in thousandths of a bit: the sum over the distinct
\* characters of -p * log2(p), p = count / length
RECURSIVE EntropyTerms(_, _)
EntropyTerms(text, chars) ==
    IF chars = {}
    THEN 0
    ELSE LET c == CHOOSE x \in chars : TRUE
             count == CharCount(text, c)
         IN count * (Log2Milli[Len(text)] - Log2Milli[count])
              + EntropyTerms(text, chars \ {c})

calculate_entropy(text) ==
    IF text = <<>>
    THEN 0
    ELSE EntropyTerms(text, Range(text)) \div Len(text)

calculate_char_diversity(text) ==
    IF text = <<>>
    THEN Q(0, 1)
    ELSE Q(Cardinality(Range(text)), Len(text))

UrlEncodedByte == <<Ch({"%"}), Cls(HexDigits, FALSE, 2, 2)>>
Base64Like == <<Bos, Cls(Base64Chars, FALSE, 20, -1), Cls({"="}, FALSE, 0, 2), Eos>>
HexString == <<Bos, Cls(HexDigits, FALSE, 16, -1), Eos>>

\* the score of one value, in tenths
detect_encoding_anomalies(value) ==
    LET found == FindallCount(UrlEncodedByte, value, 1)
        \* found * 3 / max(len, 1) > 0.3
        s1 == IF found * 3 * 10 > 3 * Max(Len(value), 1) THEN 5 ELSE 0
        s2 == IF re_search(Base64Like, value, FALSE) THEN 3 ELSE 0
        s3 == IF re_search(HexString, value, FALSE) THEN 3 ELSE 0
    IN Min(s1 + s2 + s3, 10)

typical_order ==
    <<HOST, USER_AGENT, ACCEPT, ACCEPT_LANGUAGE, ACCEPT_ENCODING, REFERER, COOKIE>>

\* the case pattern of one header name; evaluating key[0] on the empty name
\* raises IndexError
CasePattern(key) ==
    IF islower(key) THEN "lower"
    ELSE IF isupper(key) THEN "upper"
    ELSE IF key = <<>> THEN "IndexError"
    ELSE IF key[1] \in UpperChars /\ islower(Tail0(key, 1)) THEN "title"
    ELSE IF /\ contains(key, <<"-">>)
            /\ \A p \in 1..Len(split(key, "-")) :
                  LET part == split(key, "-")[p]
                  IN part # <<>> => part[1] \in UpperChars
         THEN "http_standard"
    ELSE "mixed"

\* the case patterns of the header names, in dict order
CasePatterns(headers) == [i \in 1..Len(headers) |-> CasePattern(headers[i].name)]

case_consistency_VacuousDefault(headers) ==
    LET patterns == CasePatterns(headers)
        http_standard == Cardinality({i \in 1..Len(headers) : patterns[i] = "http_standard"})
        total_headers == Len(headers)
    IN IF total_headers > 0
       THEN Q(http_standard, total_headers)
       ELSE Q(1, 1)

\* the share of the names in HTTP-standard case; 0 without headers
case_consistency(headers) ==
    LET patterns == CasePatterns(headers)
        http_standard == Cardinality({i \in 1..Len(headers) : patterns[i] = "http_standard"})
        total_headers == Len(headers)
    IN IF total_headers > 0
       THEN Q(http_standard, total_headers)
       ELSE Q(0, 1)

\* [raised, header_order_deviation, case_consistency]
analyze_header_structure(headers) ==
    LET header_keys == Keys(headers)
        len_typical == Len(typical_order)
        \* abs(i - actual_pos) summed; each term is divided by len(typical_order)
        terms == [i \in 1..len_typical |->
                    IF HasKey(headers, typical_order[i])
                    THEN Abs((i - 1) - Index0(header_keys, typical_order[i]))
                    ELSE 0]
        order_score == Q(SumSeq(terms), len_typical)
        patterns == CasePatterns(headers)
    IN [raised |-> IF \E i \in 1..Len(headers) : patterns[i] = "IndexError"
                   THEN "IndexError" ELSE "",
        header_order_deviation |-> Q(order_score[1], order_score[2] * Max(len_typical, 1)),
        case_consistency |-> case_consistency(headers)]

\* slots 1..15: presence of the expected headers, in table order
PresenceSlots(header_dict_) ==
    [i \in 1..Len(EXPECTED_HEADERS) |->
        IF HasKey(header_dict_, EXPECTED_HEADERS[i].header) THEN QInt(1) ELSE QInt(0)]

total_weight == SumSeq([i \in 1..Len(EXPECTED_HEADERS) |-> EXPECTED_HEADERS[i].weight])

present_weight(header_dict_) ==
    SumSeq([i \in 1..Len(EXPECTED_HEADERS) |->
              IF HasKey(header_dict_, EXPECTED_HEADERS[i].header)
              THEN EXPECTED_HEADERS[i].weight ELSE 0])

weighted_completeness_TotalOfPresent(header_dict_) ==
    IF present_weight(header_dict_) > 0
    THEN Q(present_weight(header_dict_), present_weight(header_dict_))
    ELSE Q(0, 1)

weighted_completeness(header_dict_) ==
    IF total_weight > 0 THEN Q(present_weight(header_dict_), total_weight) ELSE Q(0, 1)

\* max severity over the matching patterns, in tenths
ua_suspicion(ua) ==
    LET hits == {i \in 1..Len(SUSPICIOUS_UA_PATTERNS) :
                    re_search(SUSPICIOUS_UA_PATTERNS[i].pattern, ua, TRUE)}
    IN IF hits = {}
       THEN 0
       ELSE CHOOSE m \in {SUSPICIOUS_UA_PATTERNS[i].severity : i \in hits} :
               \A i \in hits : SUSPICIOUS_UA_PATTERNS[i].severity <= m

legitimate_score(ua) ==
    Q(Cardinality({i \in 1..Len(LEGITIMATE_UA_PATTERNS) :
                      re_search(LEGITIMATE_UA_PATTERNS[i], ua, FALSE)}),
      Len(LEGITIMATE_UA_PATTERNS))

ValueLengthStats_ShortDefault(header_dict_) ==
    IF header_dict_ # <<>>
    THEN LET value_lengths == [i \in 1..Len(header_dict_) |-> Len(header_dict_[i].value)]
             n == Len(value_lengths)
             total == SumSeq(value_lengths)
             sq == SumSeq([i \in 1..n |-> (n * value_lengths[i] - total)
                                            * (n * value_lengths[i] - total)])
         IN << Q(total, n),
               QInt(MaxSeq(value_lengths)),
               QInt(MinSeq(value_lengths)),
               Q(ISqrt((10000 * sq) \div (n * n * n)), 100) >>
    ELSE <<QInt(0), QInt(0), QInt(0)>>

\* avg, max, min and population standard deviation of the value lengths; the
\* deviation is sqrt(sum((x - mean)^2) / n), in hundredths
ValueLengthStats(header_dict_) ==
    IF header_dict_ # <<>>
    THEN LET value_lengths == [i \in 1..Len(header_dict_) |-> Len(header_dict_[i].value)]
             n == Len(value_lengths)
             total == SumSeq(value_lengths)
             \* (x - mean)^2 = (n*x - total)^2 / n^2
             sq == SumSeq([i \in 1..n |-> (n * value_lengths[i] - total)
                                            * (n * value_lengths[i] - total)])
         IN << Q(total, n),
               QInt(MaxSeq(value_lengths)),
               QInt(MinSeq(value_lengths)),
               Q(ISqrt((10000 * sq) \div (n * n * n)), 100) >>
    ELSE <<QInt(0), QInt(0), QInt(0), QInt(0)>>

\* mean entropy, max entropy, mean encoding-anomaly score
EntropySlots(header_dict_) ==
    LET n == Len(header_dict_)
        entropies == [i \in 1..n |-> calculate_entropy(header_dict_[i].value)]
        anomalies == [i \in 1..n |-> detect_encoding_anomalies(header_dict_[i].value)]
        total_entropy == SumSeq(entropies)
        max_entropy == IF n = 0 THEN 0 ELSE Max(0, MaxSeq(entropies))
        encoding_anomaly_score == SumSeq(anomalies)
    IN << Q(total_entropy, 1000 * Max(n, 1)),
          Q(max_entropy, 1000),
          Q(encoding_anomaly_score, 10 * Max(n, 1)) >>

x_header_count(header_dict_) ==
    Cardinality({i \in 1..Len(header_dict_) : startswith(header_dict_[i].name, <<"X","-">>)})

duplicate_score_ExactKeys(header_dict_) ==
    LET keys == Keys(header_dict_)
    IN Cardinality({p \in (1..Len(keys)) \X (1..Len(keys)) :
                       p[1] < p[2] /\ keys[p[1]] = keys[p[2]]})

duplicate_score_AdjacentKeys(header_dict_) ==
    LET keys == Keys(header_dict_)
    IN Cardinality({i \in 1..(Len(keys) - 1) : lower(keys[i]) = lower(keys[i + 1])})

duplicate_score(header_dict_) ==
    LET keys == Keys(header_dict_)
    IN Cardinality({p \in (1..Len(keys)) \X (1..Len(keys)) :
                       p[1] < p[2] /\ lower(keys[p[1]]) = lower(keys[p[2]])})

AnyText == <<Dot(0, -1)>>

\* severities in tenths
suspicious_mime_types ==
    << [pattern |-> Lit(<<"a","p","p","l","i","c","a","t","i","o","n","/","x","-","m","s","d","o","w","n","l","o","a","d">>), severity |-> 8],
       [pattern |-> Lit(<<"a","p","p","l","i","c","a","t","i","o","n","/","x","-","s","h">>), severity |-> 7],
       [pattern |-> Lit(<<"a","p","p","l","i","c","a","t","i","o","n","/","x","-","e","x","e","c","u","t","a","b","l","e">>), severity |-> 8],
       [pattern |-> Lit(<<"a","p","p","l","i","c","a","t","i","o","n","/","h","t","a">>), severity |-> 9],
       [pattern |-> Lit(<<"a","p","p","l","i","c","a","t","i","o","n","/","x","-","h","t","t","p","d","-","p","h","p">>), severity |-> 6],
       [pattern |-> Lit(<<"t","e","x","t","/","s","c","r","i","p","t","l","e","t">>), severity |-> 7],
       [pattern |-> Lit(<<"m","u","l","t","i","p","a","r","t","/","x","-","m","i","x","e","d","-","r","e","p","l","a","c","e">>), severity |-> 5],
       [pattern |-> Lit(<<"a","p","p","l","i","c","a","t","i","o","n","/","o","c","t","e","t","-","s","t","r","e","a","m">>), severity |-> 3],
       [pattern |-> <<Bos>> \o Lit(<<"t","e","x","t","/","p","l","a","i","n">>) \o AnyText \o Lit(<<"<","s","c","r","i","p","t">>),
        severity |-> 9],
       [pattern |-> <<Ch({";"} \cup Whitespace)>> \o AnyText \o <<Ch({"<", ">"})>>,
        severity |-> 6],
       [pattern |-> <<Bos, Eos>>, severity |-> 4] >>

\* the patterns of the table that match, in table order
MimeMatches(content_type) ==
    {i \in 1..Len(suspicious_mime_types) :
        re_search(suspicious_mime_types[i].pattern, content_type, TRUE)}

mime_suspicion_score_MaxMatch(content_type) ==
    LET hits == MimeMatches(content_type)
    IN IF hits = {}
       THEN 0
       ELSE MaxSeq([i \in 1..Len(suspicious_mime_types) |->
                      IF i \in hits THEN suspicious_mime_types[i].severity ELSE 0])

\* the loop stops at the first pattern that matches
mime_suspicion_score(content_type) ==
    LET hits == MimeMatches(content_type)
    IN IF hits = {}
       THEN 0
       ELSE Max(0, suspicious_mime_types[CHOOSE i \in hits : \A j \in hits : i <= j].severity)

injection_patterns ==
    << <<Ch({CR, LF})>>,
       Lit(<<"%","0">>) \o <<Ch({"d", "D"})>> \o Lit(<<"%","0">>) \o <<Ch({"a", "A"})>>,
       Lit(<<"%","0">>) \o <<Ch({"a", "A"})>>,
       Lit(<<"%","0">>) \o <<Ch({"d", "D"})>> >>

injection_score(header_dict_) ==
    Cardinality({i \in 1..Len(header_dict_) :
                    \E p \in 1..Len(injection_patterns) :
                       re_search(injection_patterns[p], header_dict_[i].value, FALSE)})

\* [raised |-> "" or the exception, value |-> the feature list]
extract_features(header_dict_) ==
    LET ua == Get(header_dict_, USER_AGENT, <<>>)
        structural_features == analyze_header_structure(header_dict_)
        content_type == Get(header_dict_, CONTENT_TYPE, <<>>)
        n == Len(header_dict_)
    IN IF structural_features.raised # ""
       THEN [raised |-> structural_features.raised, value |-> <<>>]
       ELSE [raised |-> "",
             value |->
                PresenceSlots(header_dict_)
                \o << weighted_completeness(header_dict_),
                      QInt(Len(ua)),
                      Q(ua_suspicion(ua), 10),
                      legitimate_score(ua),
                      Q(calculate_entropy(ua), 1000),
                      calculate_char_diversity(ua),
                      QInt(n) >>
                \o ValueLengthStats(header_dict_)
                \o EntropySlots(header_dict_)
                \o << structural_features.header_order_deviation,
                      structural_features.case_consistency,
                      QInt(x_header_count(header_dict_)),
                      QInt(duplicate_score(header_dict_)),
                      Q(mime_suspicion_score(content_type), 10),
                      Q(injection_score(header_dict_), Max(n, 1)) >>]

\* ---- heuristics.py: the table of suspicious header names ----
SUSPICIOUS_HEADERS ==
    << [header |-> <<"X","-","F","o","r","w","a","r","d","e","d","-","H","o","s","t">>, severity |-> "high",
        reason |-> "Often used in host header injection"],
       [header |-> <<"X","-","O","r","i","g","i","n","a","l","-","U","R","L">>, severity |-> "high",
        reason |-> "Can bypass security controls"],
       [header |-> <<"X","-","R","e","w","r","i","t","e","-","U","R","L">>, severity |-> "high",
        reason |-> "Can bypass security controls"],
       [header |-> <<"X","-","C","u","s","t","o","m","-","I","P","-","A","u","t","h","o","r","i","z","a","t","i","o","n">>, severity |-> "medium",
        reason |-> "Non-standard auth header"],
       [header |-> <<"X","-","O","r","i","g","i","n","a","t","i","n","g","-","I","P">>, severity |-> "low",
        reason |-> "May leak internal IP"],
       [header |-> <<"X","-","R","e","m","o","t","e","-","I","P">>, severity |-> "low",
        reason |-> "May leak internal IP"],
       [header |-> <<"X","-","C","l","i","e","n","t","-","I","P">>, severity |-> "low",
        reason |-> "May leak internal IP"],
       [header |-> <<"X","-","T","e","s","t">>, severity |-> "low",
        reason |-> "Testing header in production"],
       [header |-> <<"X","-","D","e","b","u","g">>, severity |-> "medium",
        reason |-> "Debug header in production"],
       [header |-> <<"X","-","F","o","o">>, severity |-> "low",
        reason |-> "Placeholder header"] >>

\* the module-level tables of extract_features.py and heuristics.py
ModuleTables ==
    [EXPECTED_HEADERS |-> EXPECTED_HEADERS,
     SUSPICIOUS_UA_PATTERNS |-> SUSPICIOUS_UA_PATTERNS,
     LEGITIMATE_UA_PATTERNS |-> LEGITIMATE_UA_PATTERNS,
     SUSPICIOUS_HEADERS |-> SUSPICIOUS_HEADERS]

(***************************************************************************)
(* Inputs: the HeaderSets the operations are applied to                    *)
(***************************************************************************)
\* the largest number of headers of a generated HeaderSet
MaxHeaders == 3

EMPTY == <<>>

HeaderNames ==
    { HOST, <<"h","o","s","t">>, <<"H","O","S","T">>, <<"X","-","H","o","s","t">>, USER_AGENT, CONTENT_TYPE, ACCEPT,
      EMPTY, <<"-">> }

\* the values a generated HeaderSet gives to a header of that name
ValuesFor(name) ==
    CASE name = CONTENT_TYPE ->
            { EMPTY, <<"t","e","x","t","/","h","t","m","l">>, <<"a","p","p","l","i","c","a","t","i","o","n","/","o","c","t","e","t","-","s","t","r","e","a","m",";","<">>,
              <<"a","p","p","l","i","c","a","t","i","o","n","/","x","-","s","h",","," ","a","p","p","l","i","c","a","t","i","o","n","/","h","t","a">> }
      [] name = USER_AGENT ->
            { <<"c","u","r","l","/","7",".","6","8",".","0">>, <<"M","o","z","i","l","l","a","/","5",".","0"," ","C","h","r","o","m","e","/","1","0","0"," ","S","a","f","a","r","i","/","5","3","7">> }
      [] name = HOST -> { <<"a">>, <<"%","0","D","%","0","a","X">> }
      [] name = <<"X","-","H","o","s","t">> -> { <<"b">>, <<"0","1","2","3","4","5","6","7","8","9","a","b","c","d","e","f">> }
      [] name = <<"h","o","s","t">> -> { <<"b">> }
      [] OTHER -> { <<"a">> }

Headers == UNION {{[name |-> nm, value |-> v] : v \in ValuesFor(nm)} : nm \in HeaderNames}

\* a dict holds a key once
DistinctKeys(d) == \A i, j \in 1..Len(d) : d[i].name = d[j].name => i = j

HeaderSets ==
    UNION {{d \in [1..n -> Headers] : DistinctKeys(d)} : n \in 0..MaxHeaders}

(***************************************************************************)
(* extract_features applied to a HeaderSet                                 *)
(***************************************************************************)
NotCalled == [raised |-> "not called", value |-> <<>>]
NoReport == [risk_score |-> -1]
NoModel == [type |-> "none", models |-> <<>>]
NoPrediction == [verdict |-> ""]
NoResult == [final_verdict |-> ""]

\* no batch: a single sample, which main numbers 0, and nothing saved
NoArgs == [save_output |-> FALSE, format |-> "json", verbose |-> FALSE]
NoOutput == [total_samples |-> -1]
NoBatch ==
    /\ args = NoArgs
    /\ header_sets = <<>>
    /\ index = 0
    /\ all_results = <<>>
    /\ output_data = NoOutput

\* no concurrent callers
NoWorkers ==
    /\ tables = ModuleTables
    /\ inputs = <<>>
    /\ workers = <<>>
    /\ frames = <<>>

InitExtract ==
    /\ header_dict \in HeaderSets
    /\ features = NotCalled
    /\ heuristics = NoReport
    /\ model_data = NoModel
    /\ votes = <<>>
    /\ ml_result = NoPrediction
    /\ result = NoResult
    /\ pc = "extract"
    /\ NoWorkers
    /\ NoBatch

\* features = extract_features(header_dict)
ExtractFeatures ==
    /\ pc = "extract"
    /\ features' = extract_features(header_dict)
    /\ pc' = "extracted"
    /\ UNCHANGED <<header_dict, heuristics, model_data, votes, ml_result, result, workerVars, batchVars>>

NextExtract == ExtractFeatures

SpecExtract == InitExtract /\ [][NextExtract]_vars

(***************************************************************************)
(* Positions of the slots in the list extract_features builds (1-based)    *)
(***************************************************************************)
SlotCompleteness == Len(EXPECTED_HEADERS) + 1
SlotUaLength == SlotCompleteness + 1
SlotUaSuspicion == SlotUaLength + 1
SlotUaLegitimate == SlotUaSuspicion + 1
SlotUaEntropy == SlotUaLegitimate + 1
SlotUaDiversity == SlotUaEntropy + 1
SlotHeaderCount == SlotUaDiversity + 1
SlotAvgLength == SlotHeaderCount + 1
SlotMaxLength == SlotAvgLength + 1
SlotMinLength == SlotMaxLength + 1
SlotStdLength == SlotMinLength + 1
SlotAvgEntropy == SlotStdLength + 1
SlotMaxEntropy == SlotAvgEntropy + 1
SlotEncodingAnomaly == SlotMaxEntropy + 1
SlotOrderDeviation == SlotEncodingAnomaly + 1
SlotCaseConsistency == SlotOrderDeviation + 1
SlotXHeaderCount == SlotCaseConsistency + 1
SlotDuplicate == SlotXHeaderCount + 1
SlotMime == SlotDuplicate + 1
SlotInjection == SlotMime + 1

(***************************************************************************)
(* Claims on extract_features                                              *)
(***************************************************************************)
Returned == pc = "extracted" /\ features.raised = ""

\* C1 (as stated): every vector extract_features returns has the length
\* 15 + 1 completeness slot + 4 UA slots + 1 count slot + 4 length-stat slots
\* + 3 entropy/encoding slots + 2 structural slots + 4 anomaly slots.
C1_LengthWithFourUaSlots ==
    Returned => Len(features.value) = Len(EXPECTED_HEADERS) + 1 + 4 + 1 + 4 + 3 + 2 + 4

\* C1 (amended): every vector extract_features returns has the same length,
\* 15 + 1 completeness slot + 5 UA slots (length, suspicion, legitimate,
\* entropy, diversity) + 1 count slot + 4 length-stat slots + 3
\* entropy/encoding slots + 2 structural slots + 4 anomaly slots.
C1_ConstantLength ==
    Returned => Len(features.value) = Len(EXPECTED_HEADERS) + 1 + 5 + 1 + 4 + 3 + 2 + 4

\* a non-empty HeaderSet and the empty one have both been extracted
C1_Witness == Returned /\ Len(header_dict) = MaxHeaders /\ Len(features.value) > 0

\* C2: extract_features is total: on every HeaderSet, also one with an empty
\* header name or a name made of hyphens only, it returns and does not raise.
C2_Total == pc = "extracted" => features.raised = ""

\* C3: for the empty HeaderSet extract_features returns, and the presence
\* slots, the completeness, the UA length, entropy and diversity, the header
\* count, the four length statistics, the mean and max entropy, the mean
\* encoding anomaly, the order deviation, the case consistency, the X- count,
\* the duplicate score and the injection score are all 0.
C3_ZeroSlots ==
    { i \in 1..Len(EXPECTED_HEADERS) : TRUE }
      \cup { SlotCompleteness, SlotUaLength, SlotUaEntropy, SlotUaDiversity,
             SlotHeaderCount, SlotAvgLength, SlotMaxLength, SlotMinLength,
             SlotStdLength, SlotAvgEntropy, SlotMaxEntropy, SlotEncodingAnomaly,
             SlotOrderDeviation, SlotCaseConsistency, SlotXHeaderCount,
             SlotDuplicate, SlotInjection }

C3_EmptyHeaderSet ==
    (pc = "extracted" /\ header_dict = <<>>) =>
        /\ features.raised = ""
        /\ \A i \in C3_ZeroSlots : QIsZero(features.value[i])

C3_Witness == pc = "extracted" /\ header_dict = <<>> /\ features.raised = ""

\* the unordered pairs of distinct stored names that are equal when case-folded
CaseVariantPairs(d) ==
    { pair \in SUBSET Range(Keys(d)) :
         /\ Cardinality(pair) = 2
         /\ \A a, b \in pair : lower(a) = lower(b) }

\* C6: the duplicate slot is the number of unordered pairs of distinct stored
\* header names that are equal after case-folding: 1 for {Host, host}, 0 for
\* {Host, X-Host}, 3 for three case variants of one name.
C6_DuplicatePairs ==
    Returned =>
        /\ features.value[SlotDuplicate] = QInt(Cardinality(CaseVariantPairs(header_dict)))
        /\ Range(Keys(header_dict)) = {HOST, <<"h","o","s","t">>}
              => features.value[SlotDuplicate] = QInt(1)
        /\ Range(Keys(header_dict)) = {HOST, <<"X","-","H","o","s","t">>}
              => features.value[SlotDuplicate] = QInt(0)
        /\ Range(Keys(header_dict)) = {HOST, <<"h","o","s","t">>, <<"H","O","S","T">>}
              => features.value[SlotDuplicate] = QInt(3)

C6_Witness ==
    /\ Returned
    /\ Range(Keys(header_dict)) = {HOST, <<"h","o","s","t">>, <<"H","O","S","T">>}
    /\ features.value[SlotDuplicate] = QInt(3)

\* C7: the suspicious-MIME slot is the severity of the first pattern of the
\* table that matches the Content-Type value, not the maximum over the
\* matching patterns.
C7_FirstMatch ==
    Returned =>
        \A i \in MimeMatches(Get(header_dict, CONTENT_TYPE, <<>>)) :
            (\A j \in MimeMatches(Get(header_dict, CONTENT_TYPE, <<>>)) : i <= j)
               => features.value[SlotMime] = Q(suspicious_mime_types[i].severity, 10)

\* an earlier pattern of lower severity and a later one of higher severity
\* both match, and the slot holds the earlier one's severity
C7_Witness ==
    /\ Returned
    /\ \E i, j \in MimeMatches(Get(header_dict, CONTENT_TYPE, <<>>)) :
          /\ i < j
          /\ suspicious_mime_types[i].severity < suspicious_mime_types[j].severity
          /\ features.value[SlotMime] = Q(suspicious_mime_types[i].severity, 10)

\* C8: the suspicious-MIME slot is 0 whenever the HeaderSet has no
\* Content-Type header, and 0 whenever no pattern matches its value.
C8_ZeroWithoutContentType ==
    Returned =>
        /\ ~HasKey(header_dict, CONTENT_TYPE) => QIsZero(features.value[SlotMime])
        /\ MimeMatches(Get(header_dict, CONTENT_TYPE, <<>>)) = {}
              => QIsZero(features.value[SlotMime])

(***************************************************************************)
(* extract_features applied to HeaderSets of expected headers              *)
(***************************************************************************)
\* a generated HeaderSet of expected headers holds at most MaxFew of them, or
\* all of them but at most MaxFew
MaxFew == 3

\* the expected headers picked by the set S of table positions, in table
\* order, each with the value "a"
RECURSIVE ExpectedDict(_, _)
ExpectedDict(S, i) ==
    IF i > Len(EXPECTED_HEADERS)
    THEN <<>>
    ELSE (IF i \in S THEN <<[name |-> EXPECTED_HEADERS[i].header, value |-> <<"a">>]>> ELSE <<>>)
           \o ExpectedDict(S, i + 1)

\* the HeaderSet with the name Host replaced by its lowercase variant
WithLowerHost(d) ==
    [i \in 1..Len(d) |-> IF d[i].name = HOST THEN [name |-> <<"h","o","s","t">>, value |-> d[i].value]
                         ELSE d[i]]

ExpectedHeaderSets ==
    LET picks == { S \in SUBSET (1..Len(EXPECTED_HEADERS)) :
                      \/ Cardinality(S) <= MaxFew
                      \/ Cardinality(S) >= Len(EXPECTED_HEADERS) - MaxFew }
        exact == { ExpectedDict(S, 1) : S \in picks }
    IN exact \cup { WithLowerHost(d) : d \in exact }

InitExpected ==
    /\ header_dict \in ExpectedHeaderSets
    /\ features = NotCalled
    /\ heuristics = NoReport
    /\ model_data = NoModel
    /\ votes = <<>>
    /\ ml_result = NoPrediction
    /\ result = NoResult
    /\ pc = "extract"
    /\ NoWorkers
    /\ NoBatch

SpecExpected == InitExpected /\ [][NextExtract]_vars

RECURSIVE WeightOf(_)
WeightOf(S) ==
    IF S = {}
    THEN 0
    ELSE LET i == CHOOSE x \in S : TRUE
         IN EXPECTED_HEADERS[i].weight + WeightOf(S \ {i})

PresentExpected(d) == { i \in 1..Len(EXPECTED_HEADERS) : HasKey(d, EXPECTED_HEADERS[i].header) }

\* C4: the completeness slot is (sum of the weights of the present expected
\* headers) / (sum of all weights); it lies in [0, 1], it does not decrease
\* when an expected header is added, and it is 1 exactly when all 15 expected
\* headers are present under their exact names.
C4_Completeness ==
    Returned =>
        LET slot == features.value[SlotCompleteness]
        IN /\ QEq(slot, Q(WeightOf(PresentExpected(header_dict)),
                          WeightOf(1..Len(EXPECTED_HEADERS))))
           /\ QLe(QInt(0), slot) /\ QLe(slot, QInt(1))
           /\ \A i \in 1..Len(EXPECTED_HEADERS) :
                 QLe(slot, weighted_completeness(
                              SetItem(header_dict, EXPECTED_HEADERS[i].header, <<"a">>)))
           /\ QEq(slot, QInt(1)) <=> PresentExpected(header_dict) = 1..Len(EXPECTED_HEADERS)

C4_Witness ==
    /\ Returned
    /\ PresentExpected(header_dict) = 1..Len(EXPECTED_HEADERS)
    /\ QEq(features.value[SlotCompleteness], QInt(1))

(***************************************************************************)
(* xweirdfor/heuristics.py                                                 *)
(***************************************************************************)
\* the flattening of a sequence of sequences
RECURSIVE Concat(_)
Concat(seqs) == IF seqs = <<>> THEN <<>> ELSE seqs[1] \o Concat(Tail(seqs))

\* s[:k]
Prefix(s, k) == SubSeq(s, 1, Min(k, Len(s)))

\* the positions just after the matches of the atoms k.. of re that start at i
RECURSIVE MatchEnds(_, _, _, _)
MatchEnds(re, s, k, i) ==
    IF k > Len(re)
    THEN {i}
    ELSE LET a == re[k]
         IN CASE a.k = "bos" -> IF i = 1 THEN MatchEnds(re, s, k + 1, i) ELSE {}
              [] a.k = "eos" ->
                    IF i = Len(s) + 1 \/ (i = Len(s) /\ s[i] = LF)
                    THEN MatchEnds(re, s, k + 1, i) ELSE {}
              [] a.k = "wb" ->
                    IF IsWordAt(s, i - 1) # IsWordAt(s, i)
                    THEN MatchEnds(re, s, k + 1, i) ELSE {}
              [] OTHER ->
                    LET avail == Len(s) - i + 1
                        top == IF a.hi = -1 THEN avail ELSE Min(a.hi, avail)
                    IN UNION { IF \A j \in i..(i + n - 1) : InClass(s[j], a, FALSE)
                               THEN MatchEnds(re, s, k + 1, i + n)
                               ELSE {} : n \in a.lo..top }

\* re.findall(pattern, s) for a pattern with one match at most from a start
\* position: the matched texts, left to right, without overlap
RECURSIVE Findall(_, _, _)
Findall(re, s, i) ==
    LET starts == {j \in i..Len(s) : MatchEnds(re, s, 1, j) # {}}
    IN IF starts = {}
       THEN <<>>
       ELSE LET first == CHOOSE j \in starts : \A k \in starts : j <= k
                ends == MatchEnds(re, s, 1, first)
                e == CHOOSE x \in ends : \A y \in ends : y <= x
            IN <<SubSeq(s, first, e - 1)>> \o Findall(re, s, Max(e, first + 1))

\* ---- _check_ip_anomalies ----
Octet == Cls(Digits, FALSE, 1, 3)
ip_pattern == <<Wb, Octet, Ch({"."}), Octet, Ch({"."}), Octet, Ch({"."}), Octet, Wb>>

DigitValue(c) == (CHOOSE i \in 1..10 : <<"0","1","2","3","4","5","6","7","8","9">>[i] = c) - 1

\* int() of a text of decimal digits
RECURSIVE ToInt(_)
ToInt(t) == IF t = <<>> THEN 0 ELSE 10 * ToInt(SubSeq(t, 1, Len(t) - 1)) + DigitValue(t[Len(t)])

\* ipaddress.ip_address on a dotted quad of 1..3 digits each: the four octets,
\* or ValueError for an octet above 255 or one written with a leading zero
ip_address(ip_str) ==
    LET parts == split(ip_str, ".")
        bad == \E k \in 1..Len(parts) :
                  \/ ToInt(parts[k]) > 255
                  \/ Len(parts[k]) > 1 /\ parts[k][1] = "0"
    IN IF bad
       THEN [error |-> "ValueError", octets |-> <<>>]
       ELSE [error |-> "", octets |-> [k \in 1..Len(parts) |-> ToInt(parts[k])]]

RECURSIVE Pow2(_)
Pow2(n) == IF n = 0 THEN 1 ELSE 2 * Pow2(n - 1)

\* the address lies in the network net/bits
InNetwork(octets, net, bits) ==
    \A k \in 1..4 :
        LET b == Min(8, Max(0, bits - 8 * (k - 1)))
        IN octets[k] \div Pow2(8 - b) = net[k] \div Pow2(8 - b)

\* ipaddress: IPv4Address.is_private, is_loopback, is_multicast
private_networks ==
    << <<<<0, 0, 0, 0>>, 8>>, <<<<10, 0, 0, 0>>, 8>>, <<<<127, 0, 0, 0>>, 8>>,
       <<<<169, 254, 0, 0>>, 16>>, <<<<172, 16, 0, 0>>, 12>>, <<<<192, 0, 0, 0>>, 29>>,
       <<<<192, 0, 0, 170>>, 31>>, <<<<192, 0, 2, 0>>, 24>>, <<<<192, 168, 0, 0>>, 16>>,
       <<<<198, 18, 0, 0>>, 15>>, <<<<198, 51, 100, 0>>, 24>>, <<<<203, 0, 113, 0>>, 24>>,
       <<<<240, 0, 0, 0>>, 4>>, <<<<255, 255, 255, 255>>, 32>> >>

is_private(octets) ==
    \E n \in 1..Len(private_networks) :
        InNetwork(octets, private_networks[n][1], private_networks[n][2])
is_loopback(octets) == InNetwork(octets, <<127, 0, 0, 0>>, 8)
is_multicast(octets) == InNetwork(octets, <<224, 0, 0, 0>>, 4)

IpAnomaliesOf(ip_str) ==
    LET ip == ip_address(ip_str)
    IN IF ip.error # ""
       THEN <<[type |-> "invalid_ip", value |-> ip_str, severity |-> "medium"]>>
       ELSE (IF is_private(ip.octets)
             THEN <<[type |-> "private_ip", value |-> ip_str, severity |-> "low"]>>
             ELSE <<>>)
            \o (IF is_loopback(ip.octets)
                THEN <<[type |-> "loopback_ip", value |-> ip_str, severity |-> "medium"]>>
                ELSE <<>>)
            \o (IF is_multicast(ip.octets)
                THEN <<[type |-> "multicast_ip", value |-> ip_str, severity |-> "low"]>>
                ELSE <<>>)

\* the list under the key "ip_anomalies"; the empty list stands for {}
check_ip_anomalies(value) ==
    LET ips == Findall(ip_pattern, value, 1)
    IN Concat([k \in 1..Len(ips) |-> IpAnomaliesOf(ips[k])])

\* ---- _check_timing_anomalies ----
date_headers == <<<<"I","f","-","M","o","d","i","f","i","e","d","-","S","i","n","c","e">>, <<"I","f","-","U","n","m","o","d","i","f","i","e","d","-","S","i","n","c","e">>, <<"D","a","t","e">>, <<"L","a","s","t","-","M","o","d","i","f","i","e","d">>>>

DATE_2015 == <<"W","e","d",","," ","2","1"," ","O","c","t"," ","2","0","1","5"," ","0","7",":","2","8",":","0","0"," ","G","M","T">>
DATE_2026 == <<"S","u","n",","," ","0","1"," ","N","o","v"," ","2","0","2","6"," ","0","7",":","2","8",":","0","0"," ","G","M","T">>
DATE_OVERFLOW == <<"W","e","d",","," ","2","1"," ","O","c","t"," ","2","0","1","5"," ","0","7",":","2","8",":","0","0"," ","+","8","8","8","8","8","8","8","8","8","8","8","8","8","8","8","8","8","8","8","8">>

\* email.utils.parsedate_to_datetime on the date values of the generated
\* HeaderSets: the day of the instant, counted from 1970-01-01, ValueError
\* for a text that is no RFC 2822 date, or OverflowError for a date whose
\* zone offset is too large for datetime.timedelta.  Time is counted in whole
\* days; the clock readings are taken at the time of day of the date values.
parsedate_to_datetime(value) ==
    CASE value = DATE_2015 -> [error |-> "", day |-> 16729]
      [] value = DATE_2026 -> [error |-> "", day |-> 20758]
      [] value = DATE_OVERFLOW -> [error |-> "OverflowError", day |-> 0]
      [] OTHER -> [error |-> "ValueError", day |-> 0]

\* datetime.now(timezone.utc), in days: a reading before which DATE_2015 is
\* less than 3650 days old, the day before DATE_2026, and its day
Clock == {20370, 20757, 20758}

bad_date_texts == <<<<"9","9","9","9">>, <<"0","0","0","0">>, <<"1","9","7","0","-","0","1","-","0","1">>>>

HasBadDateText(value) ==
    \E k \in 1..Len(bad_date_texts) : contains(value, bad_date_texts[k])

\* except (ValueError, TypeError, AttributeError)
caught_errors == {"ValueError", "TypeError", "AttributeError"}

\* the exception that leaves _check_timing_anomalies, "" for a normal return:
\* the error of the first date header, in the order of date_headers, whose
\* value passes the bad-pattern test and whose parse ends in an exception
\* that the except clause does not name
timing_raised(headers) ==
    LET raising == {k \in 1..Len(date_headers) :
                       /\ HasKey(headers, date_headers[k])
                       /\ ~HasBadDateText(Get(headers, date_headers[k], <<>>))
                       /\ parsedate_to_datetime(Get(headers, date_headers[k], <<>>)).error
                             \notin caught_errors \cup {""}}
    IN IF raising = {} THEN ""
       ELSE LET first == CHOOSE k \in raising : \A j \in raising : k <= j
            IN parsedate_to_datetime(Get(headers, date_headers[first], <<>>)).error

\* the anomalies appended for one date header; an exception that is not
\* caught appends nothing (it ends the call, see timing_raised)
TimingAnomalyOf(header, value, now) ==
    IF HasBadDateText(value)
    THEN <<[header |-> header, issue |-> "Suspicious date value", severity |-> "medium"]>>
    ELSE LET parsed == parsedate_to_datetime(value)
         IN IF parsed.error \in caught_errors
            THEN <<[header |-> header, issue |-> "Invalid date format", severity |-> "medium"]>>
            ELSE IF parsed.error # ""
            THEN <<>>
            ELSE IF parsed.day > now
            THEN <<[header |-> header, issue |-> "Future date",
                    severity |-> IF parsed.day - now < 7 THEN "low" ELSE "medium"]>>
            ELSE IF now - parsed.day > 3650
            THEN <<[header |-> header, issue |-> "Very old date (>10 years)",
                    severity |-> "low"]>>
            ELSE <<>>

\* the list under the key "timing_anomalies" when the call returns; the empty
\* list stands for {}
check_timing_anomalies(headers, now) ==
    Concat([k \in 1..Len(date_headers) |->
              IF HasKey(headers, date_headers[k])
              THEN TimingAnomalyOf(date_headers[k], Get(headers, date_headers[k], <<>>), now)
              ELSE <<>>])

\* ---- _check_encoding_chains ----
DoubleUrlEncoded == Lit(<<"%","2","5">>) \o <<Cls(HexDigits, FALSE, 2, 2)>>

check_encoding_chains(value) ==
    LET url_encoded == FindallCount(UrlEncodedByte, value, 1)
        plus_encoded == CharCount(value, "+")
    IN (IF re_search(DoubleUrlEncoded, value, FALSE)
        THEN <<[type |-> "double_url_encoding", severity |-> "medium",
                sample |-> Prefix(value, 50)]>>
        ELSE <<>>)
       \o (IF /\ contains(value, <<"%">>) /\ contains(value, <<"+">>)
              /\ url_encoded > 0 /\ plus_encoded > 2
           THEN <<[type |-> "mixed_encoding", severity |-> "low",
                   detail |-> [url_encoding |-> url_encoded, plus_encoding |-> plus_encoded]]>>
           ELSE <<>>)

\* ---- _calculate_mutation_score ----
\* the canonical spellings; the keys of the dict are their lower() forms
standard_headers == <<HOST, USER_AGENT, ACCEPT, CONTENT_TYPE, AUTHORIZATION>>

\* the length of the run of equal elements of a[i..ahi] and b[j..bhi] that
\* starts at a[i], b[j] (1-based)
RECURSIVE RunLength(_, _, _, _, _, _)
RunLength(a, i, ahi, b, j, bhi) ==
    IF i > ahi \/ j > bhi \/ a[i] # b[j]
    THEN 0
    ELSE 1 + RunLength(a, i + 1, ahi, b, j + 1, bhi)

\* difflib.SequenceMatcher.find_longest_match without junk: <<i, j, k>>, the
\* longest block a[i..i+k-1] = b[j..j+k-1] in the ranges, the one that starts
\* first in a and, among those, first in b; k = 0 when nothing matches
find_longest_match(a, alo, ahi, b, blo, bhi) ==
    LET blocks == {<<p[1], p[2], RunLength(a, p[1], ahi, b, p[2], bhi)>> :
                      p \in {q \in (alo..ahi) \X (blo..bhi) : a[q[1]] = b[q[2]]}}
    IN IF blocks = {}
       THEN <<alo, blo, 0>>
       ELSE CHOOSE m \in blocks :
               \A o \in blocks :
                  \/ o[3] < m[3]
                  \/ o[3] = m[3] /\ m[1] < o[1]
                  \/ o[3] = m[3] /\ m[1] = o[1] /\ m[2] <= o[2]

\* the total size of the matching blocks SequenceMatcher.get_matching_blocks finds
RECURSIVE MatchingSize(_, _, _, _, _, _)
MatchingSize(a, alo, ahi, b, blo, bhi) ==
    IF alo > ahi \/ blo > bhi
    THEN 0
    ELSE LET m == find_longest_match(a, alo, ahi, b, blo, bhi)
         IN IF m[3] = 0
            THEN 0
            ELSE m[3] + MatchingSize(a, alo, m[1] - 1, b, blo, m[2] - 1)
                      + MatchingSize(a, m[1] + m[3], ahi, b, m[2] + m[3], bhi)

\* SequenceMatcher(None, a, b).ratio() = 2 * matches / (len(a) + len(b)); 1 for
\* two empty texts
ratio(a, b) ==
    IF Len(a) + Len(b) = 0
    THEN Q(1, 1)
    ELSE Q(2 * MatchingSize(a, 1, Len(a), b, 1, Len(b)), Len(a) + Len(b))

\* 0.7 < similarity < 1.0
IsNearMatch(header, standard) ==
    LET similarity == ratio(lower(header), lower(standard))
    IN QLt(Q(7, 10), similarity) /\ QLt(similarity, Q(1, 1))

HasUnusualSeparator(value) ==
    contains(value, <<"|">>) \/ contains(value, <<";",";">>) \/ contains(value, <<":",":">>)

\* the mutations of the three loops, each a finding with its increment in
\* thousandths
MutationFindings(headers) ==
    Concat([i \in 1..Len(headers) |->
              IF /\ \E k \in 1..Len(standard_headers) :
                       lower(standard_headers[k]) = lower(headers[i].name)
                 /\ \A k \in 1..Len(standard_headers) :
                       lower(standard_headers[k]) = lower(headers[i].name)
                          => headers[i].name # standard_headers[k]
              THEN <<[kind |-> "Non-standard casing", header |-> headers[i].name,
                      standard |-> <<>>, add |-> 200]>>
              ELSE <<>>])
    \o Concat([i \in 1..Len(headers) |->
                 Concat([k \in 1..Len(standard_headers) |->
                           IF IsNearMatch(headers[i].name, standard_headers[k])
                           THEN <<[kind |-> "Possible typo", header |-> headers[i].name,
                                   standard |-> standard_headers[k], add |-> 300]>>
                           ELSE <<>>])])
    \o Concat([i \in 1..Len(headers) |->
                 IF HasUnusualSeparator(headers[i].value)
                 THEN <<[kind |-> "Unusual separator", header |-> headers[i].name,
                         standard |-> <<>>, add |-> 100]>>
                 ELSE <<>>])

\* [score, mutations]: the score in thousandths, min(score, 1.0)
calculate_mutation_score(headers) ==
    LET mutations == MutationFindings(headers)
    IN [score |-> Min(SumSeq([i \in 1..Len(mutations) |-> mutations[i].add]), 1000),
        mutations |-> mutations]

\* ---- analyze_headers ----
critical_headers == <<HOST, USER_AGENT>>
important_headers == <<ACCEPT, ACCEPT_ENCODING, ACCEPT_LANGUAGE>>

\* the entries of names that are no key of the dict, in list order
Missing(names, d) ==
    Concat([k \in 1..Len(names) |-> IF HasKey(d, names[k]) THEN <<>> ELSE <<names[k]>>])

\* thousandths
severity_scores(severity) ==
    CASE severity = "high" -> 400
      [] severity = "medium" -> 200
      [] severity = "low" -> 100

SuspiciousFinding_WholeValue(h) ==
    Concat([k \in 1..Len(SUSPICIOUS_HEADERS) |->
              IF SUSPICIOUS_HEADERS[k].header = h.name
              THEN <<[header |-> h.name, value |-> h.value,
                      severity |-> SUSPICIOUS_HEADERS[k].severity,
                      reason |-> SUSPICIOUS_HEADERS[k].reason]>>
              ELSE <<>>])

\* the finding of a header named in SUSPICIOUS_HEADERS
SuspiciousFinding(h) ==
    Concat([k \in 1..Len(SUSPICIOUS_HEADERS) |->
              IF SUSPICIOUS_HEADERS[k].header = h.name
              THEN <<[header |-> h.name, value |-> Prefix(h.value, 100),
                      severity |-> SUSPICIOUS_HEADERS[k].severity,
                      reason |-> SUSPICIOUS_HEADERS[k].reason]>>
              ELSE <<>>])

StructuralAnomaliesOf_PerCharacter(h) ==
    [k \in 1..Cardinality({i \in 1..Len(h.value) : h.value[i] \in {CR, LF}}) |->
        [type |-> "header_injection", header |-> h.name, severity |-> "high"]]
    \o (IF contains(h.value, <<NUL>>)
        THEN <<[type |-> "null_byte", header |-> h.name, severity |-> "high"]>>
        ELSE <<>>)

\* the entries of structural_anomalies for one header: a raw CR or LF, and a
\* NUL, in its value
StructuralAnomaliesOf(h) ==
    (IF contains(h.value, <<CR>>) \/ contains(h.value, <<LF>>)
     THEN <<[type |-> "header_injection", header |-> h.name, severity |-> "high"]>>
     ELSE <<>>)
    \o (IF contains(h.value, <<NUL>>)
        THEN <<[type |-> "null_byte", header |-> h.name, severity |-> "high"]>>
        ELSE <<>>)

\* what one header adds to risk_score in the loop over the dict, in thousandths
HeaderRisk(h) ==
    LET suspicious == SuspiciousFinding(h)
        structural == StructuralAnomaliesOf(h)
    IN SumSeq([k \in 1..Len(suspicious) |-> severity_scores(suspicious[k].severity)])
         + 100 * Len(check_encoding_chains(h.value))
         + 50 * Len(check_ip_anomalies(h.value))
         + SumSeq([k \in 1..Len(structural) |->
                     IF structural[k].type = "header_injection" THEN 500 ELSE 400])

automation_keywords ==
    <<<<"b","o","t">>, <<"c","r","a","w","l","e","r">>, <<"s","p","i","d","e","r">>, <<"s","c","r","a","p","e","r">>, <<"c","u","r","l">>, <<"w","g","e","t">>, <<"p","y","t","h","o","n">>, <<"j","a","v","a">>>>

\* the content anomalies of the User-Agent value: a short one, and the first
\* automation keyword that occurs in it
UserAgentAnomalies(ua) ==
    IF ua = <<>>
    THEN <<>>
    ELSE (IF Len(ua) < 10
          THEN <<[type |-> "short_user_agent", length |-> Len(ua), severity |-> "medium"]>>
          ELSE <<>>)
         \o (LET hits == {k \in 1..Len(automation_keywords) :
                             contains(lower(ua), lower(automation_keywords[k]))}
             IN IF hits = {}
                THEN <<>>
                ELSE LET k == CHOOSE x \in hits : \A y \in hits : x <= y
                     IN <<[type |-> "automation_tool", keyword |-> automation_keywords[k],
                           severity |-> IF automation_keywords[k] \in {<<"b","o","t">>, <<"c","r","a","w","l","e","r">>}
                                        THEN "low" ELSE "medium"]>>)

\* risk_score before the final min(risk_score, 1.0), in thousandths, given the
\* results of _calculate_mutation_score and _check_timing_anomalies
AccumulatedRisk(header_dict_, mutation, timing) ==
    LET ua == UserAgentAnomalies(Get(header_dict_, USER_AGENT, <<>>))
    IN 300 * Len(Missing(critical_headers, header_dict_))
         + 100 * Len(Missing(important_headers, header_dict_))
         + SumSeq([i \in 1..Len(header_dict_) |-> HeaderRisk(header_dict_[i])])
         + SumSeq([k \in 1..Len(ua) |-> IF ua[k].type = "short_user_agent" THEN 200 ELSE 150])
         + (IF mutation.score > 0 THEN (mutation.score * 3) \div 10 ELSE 0)
         + (IF timing # <<>> THEN 100 ELSE 0)

accumulated_risk(header_dict_, now) ==
    AccumulatedRisk(header_dict_, calculate_mutation_score(header_dict_),
                    check_timing_anomalies(header_dict_, now))

normalize_risk_Unclamped(risk_score) == risk_score

\* min(risk_score, 1.0)
normalize_risk(risk_score) == Min(risk_score, 1000)

risk_level_of(risk_score) ==
    IF risk_score < 300 THEN "low"
    ELSE IF risk_score < 600 THEN "medium"
    ELSE "high"

\* the RiskReport, given the result of _check_timing_anomalies; risk_score and
\* mutation_score in thousandths, has_mutation_score tells whether the key
\* mutation_score is set
RiskReport(header_dict_, timing) ==
    LET mutation == calculate_mutation_score(header_dict_)
        risk_score == normalize_risk(AccumulatedRisk(header_dict_, mutation, timing))
    IN [risk_score |-> risk_score,
        missing_critical_headers |-> Missing(critical_headers, header_dict_),
        missing_important_headers |-> Missing(important_headers, header_dict_),
        suspicious_headers |->
            Concat([i \in 1..Len(header_dict_) |-> SuspiciousFinding(header_dict_[i])]),
        encoding_issues |->
            Concat([i \in 1..Len(header_dict_) |-> check_encoding_chains(header_dict_[i].value)]),
        structural_anomalies |->
            Concat([i \in 1..Len(header_dict_) |-> StructuralAnomaliesOf(header_dict_[i])]),
        content_anomalies |->
            Concat([i \in 1..Len(header_dict_) |->
                      IF check_ip_anomalies(header_dict_[i].value) # <<>>
                      THEN <<[ip_anomalies |-> check_ip_anomalies(header_dict_[i].value)]>>
                      ELSE <<>>])
            \o UserAgentAnomalies(Get(header_dict_, USER_AGENT, <<>>))
            \o (IF timing # <<>> THEN <<[timing_anomalies |-> timing]>> ELSE <<>>),
        mutation_indicators |-> IF mutation.score > 0 THEN mutation.mutations ELSE <<>>,
        has_mutation_score |-> mutation.score > 0,
        mutation_score |-> mutation.score,
        risk_level |-> risk_level_of(risk_score)]

\* the outcome of a call of analyze_headers that ends in an exception
Raised(exception) == [risk_score |-> -1, raised |-> exception]

\* analyze_headers when datetime.now reads `now`
analyze_headers(header_dict_, now) ==
    IF timing_raised(header_dict_) # ""
    THEN Raised(timing_raised(header_dict_))
    ELSE RiskReport(header_dict_, check_timing_anomalies(header_dict_, now))

(***************************************************************************)
(* analyze_headers applied to a HeaderSet                                  *)
(***************************************************************************)
AnalyzedNames ==
    { HOST, <<"h","o","s","t">>, <<"H","o","s","t","s">>, USER_AGENT, ACCEPT, <<"X","-","T","e","s","t">>, <<"X","-","F","o","r","w","a","r","d","e","d","-","H","o","s","t">>,
      <<"D","a","t","e">>, <<"L","a","s","t","-","M","o","d","i","f","i","e","d">> }

AnalyzedValuesFor(name) ==
    CASE name = USER_AGENT ->
            { <<"M","o","z","i","l","l","a","/","5",".","0"," ","C","h","r","o","m","e","/","1","0","0"," ","S","a","f","a","r","i","/","5","3","7">>, <<"c","u","r","l","/","7">> }
      [] name = <<"D","a","t","e">> -> { DATE_2015, DATE_2026 }
      [] name = <<"L","a","s","t","-","M","o","d","i","f","i","e","d">> -> { <<"y","e","s","t","e","r","d","a","y">>, DATE_OVERFLOW }
      [] name = <<"h","o","s","t">> -> { <<"1","0",".","0",".","0",".","1",","," ","2","5","6",".","1",".","1",".","1">> }
      [] name = <<"H","o","s","t","s">> -> { <<"%","2","5","4","1","+","a","+","b","+","c">> }
      [] name = ACCEPT -> { <<"a","|","b">> }
      [] name = <<"X","-","F","o","r","w","a","r","d","e","d","-","H","o","s","t">> -> { <<"e","v","i","l",CR,LF,"S","e","t","-","C","o","o","k","i","e",":"," ","x","=","1">>, <<"a", NUL>> }
      [] name = <<"X","-","T","e","s","t">> -> { <<"a",LF,"b">> }
      [] OTHER -> { <<"a">> }

AnalyzedHeaders ==
    UNION {{[name |-> nm, value |-> v] : v \in AnalyzedValuesFor(nm)} : nm \in AnalyzedNames}

AnalyzedHeaderSets ==
    UNION {{d \in [1..n -> AnalyzedHeaders] : DistinctKeys(d)} : n \in 0..MaxHeaders}

InitAnalyze ==
    /\ header_dict \in AnalyzedHeaderSets
    /\ features = NotCalled
    /\ heuristics = NoReport
    /\ model_data = NoModel
    /\ votes = <<>>
    /\ ml_result = NoPrediction
    /\ result = NoResult
    /\ pc = "analyze"
    /\ NoWorkers
    /\ NoBatch

\* heuristics = analyze_headers(headers), at some reading of the clock; an
\* exception ends the run
AnalyzeHeaders ==
    /\ pc = "analyze"
    /\ IF timing_raised(header_dict) # ""
       THEN /\ heuristics' = Raised(timing_raised(header_dict))
            /\ pc' = "failed"
       ELSE /\ \E timing \in {check_timing_anomalies(header_dict, now) : now \in Clock} :
                  heuristics' = RiskReport(header_dict, timing)
            /\ pc' = "analyzed"
    /\ UNCHANGED <<header_dict, features, model_data, votes, ml_result, result, workerVars, batchVars>>

NextAnalyze == AnalyzeHeaders

SpecAnalyze == InitAnalyze /\ [][NextAnalyze]_vars


(***************************************************************************)
(* Claims on analyze_headers                                               *)
(***************************************************************************)
Analyzed == pc = "analyzed"

\* C5: for every HeaderSet, analyze_headers' risk_score lies in [0, 1] and
\* determines risk_level: "low" iff risk_score < 0.3, "medium" iff
\* 0.3 <= risk_score < 0.6, "high" iff risk_score >= 0.6.
C5_RiskBands ==
    Analyzed =>
        /\ heuristics.risk_score >= 0
        /\ heuristics.risk_score <= 1000
        /\ heuristics.risk_level \in {"low", "medium", "high"}
        /\ heuristics.risk_level = "low" <=> heuristics.risk_score < 300
        /\ heuristics.risk_level = "medium" <=>
              (300 <= heuristics.risk_score /\ heuristics.risk_score < 600)
        /\ heuristics.risk_level = "high" <=> heuristics.risk_score >= 600

\* a report whose accumulated risk went over 1.0 and was cut to it
C5_Witness ==
    /\ Analyzed
    /\ heuristics.risk_score = 1000
    /\ heuristics.risk_level = "high"
    /\ \E now \in Clock : accumulated_risk(header_dict, now) > 1000

\* C13: analyze_headers is deterministic: invoked on the same HeaderSet at any
\* two readings of the clock it returns the same RiskReport, also when the
\* HeaderSet carries a date header.
C13_SameReportAtAnyTime ==
    Analyzed => \A now \in Clock : analyze_headers(header_dict, now) = heuristics

HasCrLf(value) == \E i \in 1..Len(value) : value[i] \in {CR, LF}
HasNul(value) == \E i \in 1..Len(value) : value[i] = NUL

\* the header with the characters CR, LF and NUL taken out of its value
WithoutControls(h) ==
    [name |-> h.name, value |-> SelectSeq(h.value, LAMBDA c : c \notin {CR, LF, NUL})]

\* the positions of the entries of a finding list with that type and header
EntriesOf(findings, type, header) ==
    {k \in 1..Len(findings) : findings[k].type = type /\ findings[k].header = header}

\* C14: every header whose value holds a raw CR or LF gives exactly one
\* structural_anomalies entry "header_injection" of severity "high" and adds
\* 0.5 to the unclamped risk_score, once per header however many CR and LF
\* the value holds; every header whose value holds a NUL gives one
\* "null_byte" entry of severity "high" and adds 0.4.
C14_InjectionFindings ==
    Analyzed =>
        /\ \A k \in 1..Len(heuristics.structural_anomalies) :
              /\ heuristics.structural_anomalies[k].severity = "high"
              /\ heuristics.structural_anomalies[k].type \in {"header_injection", "null_byte"}
              /\ HasKey(header_dict, heuristics.structural_anomalies[k].header)
        /\ \A i \in 1..Len(header_dict) :
              LET h == header_dict[i]
                  injections == EntriesOf(heuristics.structural_anomalies,
                                          "header_injection", h.name)
                  null_bytes == EntriesOf(heuristics.structural_anomalies,
                                          "null_byte", h.name)
              IN /\ Cardinality(injections) = IF HasCrLf(h.value) THEN 1 ELSE 0
                 /\ Cardinality(null_bytes) = IF HasNul(h.value) THEN 1 ELSE 0
                 /\ HeaderRisk(h) = HeaderRisk(WithoutControls(h))
                                       + (IF HasCrLf(h.value) THEN 500 ELSE 0)
                                       + (IF HasNul(h.value) THEN 400 ELSE 0)

\* two headers with a raw line break, one of them with both CR and LF, have
\* one header_injection entry each
C14_Witness ==
    /\ Analyzed
    /\ \E i, j \in 1..Len(header_dict) :
          /\ i # j
          /\ HasCrLf(header_dict[j].value)
          /\ Cardinality({k \in 1..Len(header_dict[i].value) :
                             header_dict[i].value[k] \in {CR, LF}}) = 2
          /\ Cardinality(EntriesOf(heuristics.structural_anomalies, "header_injection",
                                   header_dict[i].name)) = 1
    /\ Len(heuristics.structural_anomalies) = 2

\* the findings under the key "timing_anomalies" of a report
TimingFindings(report) ==
    Concat([k \in 1..Len(report.content_anomalies) |->
              IF "timing_anomalies" \in DOMAIN report.content_anomalies[k]
              THEN report.content_anomalies[k].timing_anomalies ELSE <<>>])

\* the findings under the keys "ip_anomalies" of a report
IpFindings(report) ==
    Concat([k \in 1..Len(report.content_anomalies) |->
              IF "ip_anomalies" \in DOMAIN report.content_anomalies[k]
              THEN report.content_anomalies[k].ip_anomalies ELSE <<>>])

\* C15: analyze_headers never ends in an error: a call that has ended has
\* returned a report, in which every date header with an unparseable value
\* has the timing anomaly "Invalid date format" of severity "medium" and
\* every dotted quad that is no IPv4 address has an "invalid_ip" anomaly of
\* severity "medium".
C15_NeverRaises ==
    pc # "analyze" =>
        /\ pc = "analyzed"
        /\ \A k \in 1..Len(date_headers) :
              LET value == Get(header_dict, date_headers[k], <<>>)
              IN (/\ HasKey(header_dict, date_headers[k])
                  /\ ~HasBadDateText(value)
                  /\ parsedate_to_datetime(value).error # "") =>
                     \E f \in Range(TimingFindings(heuristics)) :
                        f = [header |-> date_headers[k], issue |-> "Invalid date format",
                             severity |-> "medium"]
        /\ \A i \in 1..Len(header_dict) :
              \A ip_str \in Range(Findall(ip_pattern, header_dict[i].value, 1)) :
                 ip_address(ip_str).error # "" =>
                    \E f \in Range(IpFindings(heuristics)) :
                       f = [type |-> "invalid_ip", value |-> ip_str, severity |-> "medium"]

\* C19: a User-Agent whose value contains a known-bad automation pattern is
\* recorded as an entry of suspicious_headers whose header is "User-Agent"
\* and whose value contains the pattern.
C19_BadUserAgentListed ==
    Analyzed =>
        \A k \in 1..Len(automation_keywords) :
           contains(lower(Get(header_dict, USER_AGENT, <<>>)), automation_keywords[k]) =>
              \E f \in Range(heuristics.suspicious_headers) :
                 /\ f.header = USER_AGENT
                 /\ contains(lower(f.value), automation_keywords[k])

\* C20: each timing anomaly adds a flat 0.1 to the unclamped risk_score: with
\* k anomalous date headers the score before the final min is the score
\* without the timing check plus 0.1 * k, and the reported score is the min
\* of that and 1.0.
C20_TimingPerAnomaly ==
    Analyzed =>
        LET timing == TimingFindings(heuristics)
            mutation == [score |-> heuristics.mutation_score, mutations |-> <<>>]
            untimed == AccumulatedRisk(header_dict, mutation, <<>>)
        IN /\ AccumulatedRisk(header_dict, mutation, timing) = untimed + 100 * Len(timing)
           /\ heuristics.risk_score = Min(untimed + 100 * Len(timing), 1000)

(***************************************************************************)
(* scripts/predict.py: models, votes and the combined verdict              *)
(***************************************************************************)
\* the largest number of member models of a generated ensemble
MaxModels == 4

\* the names train_ensemble gives its members; a further member is "extra"
ModelName(k) ==
    CASE k = 1 -> "conservative"
      [] k = 2 -> "balanced"
      [] k = 3 -> "aggressive"
      [] k = 4 -> "subsampled"
      [] OTHER -> "extra"

\* load_model: the contents of a model file, a bare model wrapped as "single"
\* or an ensemble dict with its list of named members
ModelFiles ==
    {[type |-> "single", models |-> <<"model">>]}
        \cup {[type |-> "ensemble", models |-> [k \in 1..n |-> ModelName(k)]] :
                 n \in 0..MaxModels}

\* what a fitted IsolationForest answers on a feature vector: the label of
\* predict and the value of decision_function, in thousandths; the label is
\* -1 (outlier) when the value is negative and 1 otherwise
ModelOutputs ==
    { [prediction |-> -1, score |-> -100],
      [prediction |-> 1, score |-> 50],
      [prediction |-> 1, score |-> 150] }

\* a float that may be nan
Real(q) == [nan |-> FALSE, q |-> q]
NaN == [nan |-> TRUE, q |-> Q(0, 1)]

\* np.mean; nan for an empty list
mean(scores) ==
    IF scores = <<>> THEN NaN ELSE Real(Q(SumSeq(scores), Len(scores)))

\* the list with x put before its first larger entry
RECURSIVE Insert(_, _)
Insert(x, s) ==
    IF s = <<>> THEN <<x>>
    ELSE IF x <= s[1] THEN <<x>> \o s
    ELSE <<s[1]>> \o Insert(x, Tail(s))

RECURSIVE Sorted(_)
Sorted(s) == IF s = <<>> THEN <<>> ELSE Insert(s[1], Sorted(Tail(s)))

\* np.median: the middle entry of the sorted list, or the mean of the two
\* middle ones; nan for an empty list
median(scores) ==
    LET n == Len(scores)
        s == Sorted(scores)
    IN IF n = 0 THEN NaN
       ELSE IF n % 2 = 1 THEN Real(Q(s[(n + 1) \div 2], 1))
       ELSE Real(Q(s[n \div 2] + s[n \div 2 + 1], 2))

\* np.std, the population standard deviation sqrt(n * sum(x^2) - sum(x)^2) / n
\* with the root cut to a whole number of thousandths; nan for an empty list
std(scores) ==
    LET n == Len(scores)
        squares == SumSeq([k \in 1..n |-> scores[k] * scores[k]])
    IN IF n = 0 THEN NaN
       ELSE Real(Q(ISqrt(n * squares - SumSeq(scores) * SumSeq(scores)), n))

\* verdict = "suspicious" if prediction == -1 else "normal"
verdict_of(prediction) == IF prediction = -1 THEN "suspicious" ELSE "normal"

\* predict_single_model, as run_prediction wraps it
predict_single_model(output) ==
    [verdict |-> verdict_of(output.prediction),
     score |-> output.score,
     model_type |-> "single"]

\* the entry a member appends to votes
Vote(name, output) ==
    [model |-> name,
     verdict |-> verdict_of(output.prediction),
     score |-> output.score,
     confidence |-> Abs(output.score)]

suspicious_votes(votes_) ==
    Cardinality({k \in 1..Len(votes_) : votes_[k].verdict = "suspicious"})

final_verdict_MajorityOrTie(suspicious_votes_, total_votes) ==
    IF 2 * suspicious_votes_ >= total_votes /\ suspicious_votes_ > 0 THEN "suspicious"
    ELSE IF suspicious_votes_ = 0 THEN "normal"
    ELSE "gray"

final_verdict_NormalNeedsVotes(suspicious_votes_, total_votes) ==
    IF 2 * suspicious_votes_ > total_votes THEN "suspicious"
    ELSE IF suspicious_votes_ = 0 /\ total_votes > 0 THEN "normal"
    ELSE "gray"

\* the majority vote: suspicious_votes > total_votes / 2
final_verdict(suspicious_votes_, total_votes) ==
    IF 2 * suspicious_votes_ > total_votes THEN "suspicious"
    ELSE IF suspicious_votes_ = 0 THEN "normal"
    ELSE "gray"

confidence_OverTotal(suspicious_votes_, total_votes) ==
    IF suspicious_votes_ = 0 \/ suspicious_votes_ = total_votes
    THEN Q(1, 1)
    ELSE Q(Abs(2 * suspicious_votes_ - total_votes), 2 * total_votes)

\* the agreement: abs(suspicious_votes - total_votes / 2) / (total_votes / 2),
\* that is |2 * suspicious_votes - total_votes| / total_votes
confidence(suspicious_votes_, total_votes) ==
    IF suspicious_votes_ = 0 \/ suspicious_votes_ = total_votes
    THEN Q(1, 1)
    ELSE Q(Abs(2 * suspicious_votes_ - total_votes), total_votes)

\* the aggregation of predict_ensemble_model, as run_prediction returns it;
\* vote_summary holds the two numbers of the text "s/n suspicious"
predict_ensemble_model(votes_) ==
    LET scores == [k \in 1..Len(votes_) |-> votes_[k].score]
        s == suspicious_votes(votes_)
        total_votes == Len(votes_)
    IN [verdict |-> final_verdict(s, total_votes),
        avg_score |-> mean(scores),
        median_score |-> median(scores),
        score_std |-> std(scores),
        confidence |-> confidence(s, total_votes),
        votes |-> votes_,
        vote_summary |-> [suspicious_votes |-> s, total_votes |-> total_votes],
        model_type |-> "ensemble"]

combined_verdict_GrayAtHalf(model_type, verdict, risk_score) ==
    IF model_type = "ensemble"
    THEN IF verdict = "gray"
         THEN IF risk_score >= 500 THEN "suspicious"
              ELSE IF risk_score < 200 THEN "normal"
              ELSE "gray"
         ELSE verdict
    ELSE IF verdict = "suspicious" \/ risk_score > 700
         THEN "suspicious"
         ELSE verdict

combined_verdict_SingleAtThreshold(model_type, verdict, risk_score) ==
    IF model_type = "ensemble"
    THEN IF verdict = "gray"
         THEN IF risk_score > 500 THEN "suspicious"
              ELSE IF risk_score < 200 THEN "normal"
              ELSE "gray"
         ELSE verdict
    ELSE IF verdict = "suspicious" \/ risk_score >= 700
         THEN "suspicious"
         ELSE verdict

\* result["final_verdict"] of main, risk_score in thousandths
combined_verdict(model_type, verdict, risk_score) ==
    IF model_type = "ensemble"
    THEN IF verdict = "gray"
         THEN IF risk_score > 500 THEN "suspicious"
              ELSE IF risk_score < 200 THEN "normal"
              ELSE "gray"
         ELSE verdict
    ELSE IF verdict = "suspicious" \/ risk_score > 700
         THEN "suspicious"
         ELSE verdict

\* the result dict of main for the sample numbered index_: the keys of ml_result are
\* kept together under ml_result; an absent key holds the empty list
Result(index_, ml_result_, heuristics_, model_type) ==
    [index |-> index_,
     ml_result |-> ml_result_,
     heuristic_risk |-> heuristics_.risk_score,
     heuristic_risk_level |-> heuristics_.risk_level,
     missing_critical_headers |-> heuristics_.missing_critical_headers,
     suspicious_headers |-> heuristics_.suspicious_headers,
     final_verdict |->
         combined_verdict(model_type, ml_result_.verdict, heuristics_.risk_score)]

(***************************************************************************)
(* main: one header set through run_prediction, analyze_headers and the    *)
(* combined verdict                                                        *)
(***************************************************************************)
CLEAN_UA == <<"M","o","z","i","l","l","a","/","5",".","0"," ","C","h","r","o","m","e","/","1","0","0"," ","S","a","f","a","r","i","/","5","3","7">>

Dict(names, values) == [k \in 1..Len(names) |-> [name |-> names[k], value |-> values[k]]]

\* the header sets of the input file
PredictedHeaderSets ==
    { EMPTY,
      Dict(<<EMPTY>>, <<<<"a">>>>),
      Dict(<<HOST, USER_AGENT, ACCEPT, ACCEPT_ENCODING>>, <<<<"a">>, CLEAN_UA, <<"a">>, <<"a">>>>),
      Dict(<<HOST, USER_AGENT, ACCEPT>>, <<<<"a">>, CLEAN_UA, <<"a">>>>),
      Dict(<<HOST, USER_AGENT>>, <<<<"a">>, CLEAN_UA>>),
      Dict(<<HOST, USER_AGENT>>, <<<<"a">>, <<"M","o","z","i","l","l","a">>>>),
      Dict(<<HOST, USER_AGENT>>, <<<<"a">>, <<"c","u","r","l","/","7">>>>),
      Dict(<<USER_AGENT, <<"X","-","T","e","s","t">>>>, <<CLEAN_UA, <<"a">>>>),
      Dict(<<HOST, USER_AGENT, <<"X","-","D","e","b","u","g">>>>, <<<<"a">>, CLEAN_UA, <<"a",CR,LF,"b">>>>),
      Dict(<<HOST, USER_AGENT, <<"D","a","t","e">>>>, <<<<"a">>, CLEAN_UA, DATE_2015>>) }

Init ==
    /\ header_dict \in PredictedHeaderSets
    /\ features = NotCalled
    /\ heuristics = NoReport
    /\ model_data \in ModelFiles
    /\ votes = <<>>
    /\ ml_result = NoPrediction
    /\ result = NoResult
    /\ pc = "extract"
    /\ NoWorkers
    /\ NoBatch

\* run_prediction with a single model, after extract_features returned
PredictSingle ==
    /\ pc = "extracted"
    /\ features.raised = ""
    /\ model_data.type = "single"
    /\ \E output \in ModelOutputs : ml_result' = predict_single_model(output)
    /\ pc' = "analyze"
    /\ UNCHANGED <<header_dict, features, heuristics, model_data, votes, result, workerVars, batchVars>>

\* one round of the loop over the members in predict_ensemble_model
PredictMember ==
    /\ pc = "extracted"
    /\ features.raised = ""
    /\ model_data.type = "ensemble"
    /\ Len(votes) < Len(model_data.models)
    /\ \E output \in ModelOutputs :
          votes' = Append(votes, Vote(model_data.models[Len(votes) + 1], output))
    /\ UNCHANGED <<header_dict, features, heuristics, model_data, ml_result, result, pc, workerVars, batchVars>>

\* the aggregation after the loop, and the return of run_prediction
Aggregate ==
    /\ pc = "extracted"
    /\ features.raised = ""
    /\ model_data.type = "ensemble"
    /\ Len(votes) = Len(model_data.models)
    /\ ml_result' = predict_ensemble_model(votes)
    /\ pc' = "analyze"
    /\ UNCHANGED <<header_dict, features, heuristics, model_data, votes, result, workerVars, batchVars>>

\* the result of the sample and its final_verdict
CombineVerdict ==
    /\ pc = "analyzed"
    /\ result' = Result(index, ml_result, heuristics, model_data.type)
    /\ pc' = "done"
    /\ UNCHANGED <<header_dict, features, heuristics, model_data, votes, ml_result, workerVars, batchVars>>

Next ==
    \/ ExtractFeatures
    \/ PredictSingle
    \/ PredictMember
    \/ Aggregate
    \/ AnalyzeHeaders
    \/ CombineVerdict

Spec == Init /\ [][Next]_vars

(***************************************************************************)
(* Claims on the ensemble vote                                             *)
(***************************************************************************)
Aggregated == model_data.type = "ensemble" /\ pc \in {"analyze", "analyzed", "done"}

\* C9: with s suspicious votes out of n, the verdict of predict_ensemble_model
\* is "suspicious" iff s > n/2, "normal" iff s = 0, and "gray" iff
\* 0 < s <= n/2; a member's vote is "suspicious" iff its model predicted the
\* outlier label -1, and "normal" otherwise.
C9_MajorityVote ==
    /\ \A k \in 1..Len(votes) :
          \E output \in ModelOutputs :
             /\ output.score = votes[k].score
             /\ votes[k].verdict = "suspicious" <=> output.prediction = -1
             /\ votes[k].verdict = "normal" <=> output.prediction # -1
    /\ Aggregated =>
          LET s == suspicious_votes(votes)
              n == Len(votes)
          IN /\ n = Len(model_data.models)
             /\ ml_result.votes = votes
             /\ ml_result.verdict = "suspicious" <=> 2 * s > n
             /\ ml_result.verdict = "normal" <=> s = 0
             /\ ml_result.verdict = "gray" <=> (0 < s /\ 2 * s <= n)

\* three members, one of them voting suspicious: a minority, "gray"
C9_Witness ==
    /\ Aggregated
    /\ Len(votes) = 3
    /\ suspicious_votes(votes) = 1
    /\ ml_result.verdict = "gray"

QSub(a, b) == <<a[1] * b[2] - b[1] * a[2], a[2] * b[2]>>
QAbs(a) == <<Abs(a[1]), a[2]>>
QDiv(a, b) == <<a[1] * b[2], a[2] * b[1]>>

\* C10: with s suspicious votes out of n >= 1, the confidence is 1.0 when
\* s = 0 or s = n, and |s - n/2| / (n/2) otherwise; it lies in [0, 1], and it
\* is 0.0 exactly when the vote is a tie, s = n/2.
C10_Confidence ==
    (Aggregated /\ Len(votes) >= 1) =>
        LET s == suspicious_votes(votes)
            n == Len(votes)
        IN /\ (s = 0 \/ s = n) => QEq(ml_result.confidence, Q(1, 1))
           /\ (s # 0 /\ s # n) =>
                 QEq(ml_result.confidence,
                     QDiv(QAbs(QSub(QInt(s), Q(n, 2))), Q(n, 2)))
           /\ ml_result.confidence[2] > 0
           /\ QLe(Q(0, 1), ml_result.confidence)
           /\ QLe(ml_result.confidence, Q(1, 1))
           /\ QIsZero(ml_result.confidence) <=> 2 * s = n

\* four members, two of them voting suspicious: "gray" with confidence 0.0
C10_Witness ==
    /\ Aggregated
    /\ Len(votes) = 4
    /\ suspicious_votes(votes) = 2
    /\ ml_result.verdict = "gray"
    /\ QIsZero(ml_result.confidence)

(***************************************************************************)
(* Claims on the combined verdict of main                                  *)
(***************************************************************************)
Combined == pc = "done"

\* C11: in ensemble mode the final verdict is decided at one point, from the
\* ensemble verdict and the heuristic risk_score r: for the verdict "gray" it
\* is "suspicious" when r > 0.5, "normal" when r < 0.2 and "gray" when
\* 0.2 <= r <= 0.5; a "normal" or "suspicious" ensemble verdict is the final
\* verdict whatever r is.
C11_GrayTieBreak ==
    /\ ~Combined => result = NoResult
    /\ (Combined /\ model_data.type = "ensemble") =>
          LET r == heuristics.risk_score
              final == result.final_verdict
          IN /\ result.heuristic_risk = r
             /\ result.ml_result = ml_result
             /\ ml_result.verdict \in {"normal", "suspicious", "gray"}
             /\ ml_result.verdict = "gray" =>
                   /\ final = "suspicious" <=> r > 500
                   /\ final = "normal" <=> r < 200
                   /\ final = "gray" <=> (200 <= r /\ r <= 500)
             /\ ml_result.verdict # "gray" => final = ml_result.verdict

\* a "gray" ensemble verdict with risk_score 0.5 exactly stays "gray"
C11_Witness ==
    /\ Combined
    /\ model_data.type = "ensemble"
    /\ ml_result.verdict = "gray"
    /\ heuristics.risk_score = 500
    /\ result.final_verdict = "gray"

\* C12: in single-model mode the final verdict is "suspicious" iff the model
\* predicted the outlier label -1 or the heuristic risk_score is above 0.7,
\* and "normal" otherwise, never "gray"; the reported score is the model's
\* decision value.
C12_SingleVerdict ==
    (pc \in {"analyze", "analyzed", "done"} /\ model_data.type = "single") =>
        \E output \in ModelOutputs :
           /\ ml_result.score = output.score
           /\ ml_result.verdict = "suspicious" <=> output.prediction = -1
           /\ Combined =>
                 /\ result.ml_result.score = output.score
                 /\ result.final_verdict = "suspicious" <=>
                       (output.prediction = -1 \/ heuristics.risk_score > 700)
                 /\ result.final_verdict = "normal" <=>
                       (output.prediction # -1 /\ heuristics.risk_score <= 700)
                 /\ result.final_verdict # "gray"

\* an inlier label with risk_score 0.7 exactly stays "normal"
C12_Witness ==
    /\ Combined
    /\ model_data.type = "single"
    /\ ml_result.verdict = "normal"
    /\ heuristics.risk_score = 700
    /\ result.final_verdict = "normal"


(***************************************************************************)
(* Several workers call extract_features and analyze_headers concurrently, *)
(* each on a HeaderSet of its own.  A call advances in steps that follow   *)
(* the sections of the function body; the steps of different workers      *)
(* interleave in any order.  The locals of a call (the list `features`,    *)
(* the dict `results`, the position in the loop over the headers) live in  *)
(* the frame of the call.                                                  *)
(***************************************************************************)
MaxWorkers == 2
Workers == 1..MaxWorkers

\* the HeaderSet of each worker
WorkerHeaderSets ==
    << Dict(<<HOST, <<"X","-","F","o","r","w","a","r","d","e","d","-","H","o","s","t">>>>, <<<<"a">>, <<"e","v","i","l",CR,LF,"S","e","t","-","C","o","o","k","i","e",":"," ","x","=","1">>>>),
       Dict(<<USER_AGENT, <<"D","a","t","e">>>>, <<<<"c","u","r","l","/","7">>, DATE_2015>>),
       Dict(<<<<"h","o","s","t">>, ACCEPT>>, <<<<"1","0",".","0",".","0",".","1",","," ","2","5","6",".","1",".","1",".","1">>, <<"a","|","b">>>>) >>

WorkerHeaderSet(w) == WorkerHeaderSets[((w - 1) % Len(WorkerHeaderSets)) + 1]

Calls == {"extract_features", "analyze_headers"}

\* the frame in which the call of worker w keeps its locals: one per call
frame_Shared(w) == 1

frame(w) == w

\* results = {...} at the head of analyze_headers; risk_level "" is the key
\* not set yet
FreshResults ==
    [risk_score |-> 0,
     missing_critical_headers |-> <<>>,
     missing_important_headers |-> <<>>,
     suspicious_headers |-> <<>>,
     encoding_issues |-> <<>>,
     structural_anomalies |-> <<>>,
     content_anomalies |-> <<>>,
     mutation_indicators |-> <<>>,
     has_mutation_score |-> FALSE,
     mutation_score |-> 0,
     risk_level |-> ""]

\* the locals at the head of a call: features = [], results, and the number
\* of headers the loop of analyze_headers has handled
NewFrame == [features |-> <<>>, results |-> FreshResults, i |-> 0]

NotReturned == [raised |-> "not returned"]

InitWorkers ==
    /\ header_dict = <<>>
    /\ features = NotCalled
    /\ heuristics = NoReport
    /\ model_data = NoModel
    /\ votes = <<>>
    /\ ml_result = NoPrediction
    /\ result = NoResult
    /\ pc = "workers"
    /\ NoBatch
    /\ tables = ModuleTables
    /\ inputs = [w \in Workers |-> WorkerHeaderSet(w)]
    /\ workers \in {[w \in Workers |->
                       [call |-> calls[w], pc |-> "call", arg |-> inputs[w], now |-> 0,
                        overlapped |-> FALSE, returned |-> NotReturned]] :
                    calls \in [Workers -> Calls]}
    /\ frames = [w \in Workers |-> NewFrame]

\* worker w is inside a call while another worker is inside one
Overlaps(w) == \E v \in Workers : v # w /\ workers[v].pc \notin {"call", "done"}

\* worker w moves to position `to`; `now` and `returned` as given
Advance(w, to, now, returned) ==
    workers' = [workers EXCEPT ![w] =
                   [@ EXCEPT !.pc = to, !.now = now, !.returned = returned,
                             !.overlapped = @ \/ Overlaps(w)]]

At(w, call, position) == workers[w].call = call /\ workers[w].pc = position

Others == <<header_dict, features, heuristics, model_data, votes, ml_result, result, pc,
            batchVars>>

\* extract_features: features = [], the presence flags and the completeness
ExtractPresence(w) ==
    /\ At(w, "extract_features", "call")
    /\ frames' = [frames EXCEPT ![frame(w)] =
                     [NewFrame EXCEPT !.features =
                         PresenceSlots(inputs[w]) \o <<weighted_completeness(inputs[w])>>]]
    /\ Advance(w, "user_agent", 0, NotReturned)
    /\ UNCHANGED <<Others, tables, inputs>>

\* extract_features: the five User-Agent slots
ExtractUserAgent(w) ==
    /\ At(w, "extract_features", "user_agent")
    /\ LET ua == Get(inputs[w], USER_AGENT, <<>>)
       IN frames' = [frames EXCEPT ![frame(w)].features =
                        @ \o << QInt(Len(ua)),
                                Q(ua_suspicion(ua), 10),
                                legitimate_score(ua),
                                Q(calculate_entropy(ua), 1000),
                                calculate_char_diversity(ua) >>]
    /\ Advance(w, "statistics", 0, NotReturned)
    /\ UNCHANGED <<Others, tables, inputs>>

\* extract_features: the header count, the length statistics, the entropy slots
ExtractStatistics(w) ==
    /\ At(w, "extract_features", "statistics")
    /\ frames' = [frames EXCEPT ![frame(w)].features =
                     @ \o <<QInt(Len(inputs[w]))>>
                       \o ValueLengthStats(inputs[w])
                       \o EntropySlots(inputs[w])]
    /\ Advance(w, "structure", 0, NotReturned)
    /\ UNCHANGED <<Others, tables, inputs>>

\* extract_features: the structural slots, the anomaly slots, and the return
ExtractStructure(w) ==
    /\ At(w, "extract_features", "structure")
    /\ LET structural_features == analyze_header_structure(inputs[w])
           n == Len(inputs[w])
           slots == << structural_features.header_order_deviation,
                       structural_features.case_consistency,
                       QInt(x_header_count(inputs[w])),
                       QInt(duplicate_score(inputs[w])),
                       Q(mime_suspicion_score(Get(inputs[w], CONTENT_TYPE, <<>>)), 10),
                       Q(injection_score(inputs[w]), Max(n, 1)) >>
       IN IF structural_features.raised # ""
          THEN /\ Advance(w, "done", 0, [raised |-> structural_features.raised, value |-> <<>>])
               /\ UNCHANGED frames
          ELSE /\ frames' = [frames EXCEPT ![frame(w)].features = @ \o slots]
               /\ Advance(w, "done", 0,
                          [raised |-> "", value |-> frames[frame(w)].features \o slots])
    /\ UNCHANGED <<Others, tables, inputs>>

\* analyze_headers: results = {...} and the two loops over the missing headers
AnalyzeMissing(w) ==
    /\ At(w, "analyze_headers", "call")
    /\ LET missing_critical == Missing(critical_headers, inputs[w])
           missing_important == Missing(important_headers, inputs[w])
       IN frames' = [frames EXCEPT ![frame(w)] =
                        [NewFrame EXCEPT
                            !.results.missing_critical_headers = missing_critical,
                            !.results.missing_important_headers = missing_important,
                            !.results.risk_score =
                                300 * Len(missing_critical) + 100 * Len(missing_important)]]
    /\ Advance(w, "headers", 0, NotReturned)
    /\ UNCHANGED <<Others, tables, inputs>>

\* analyze_headers: one round of the loop over header_dict.items(), or its end
AnalyzeHeader(w) ==
    /\ At(w, "analyze_headers", "headers")
    /\ LET i == frames[frame(w)].i
       IN IF i < Len(inputs[w])
          THEN LET h == inputs[w][i + 1]
                   ip_results == check_ip_anomalies(h.value)
               IN /\ frames' = [frames EXCEPT
                        ![frame(w)].i = i + 1,
                        ![frame(w)].results.suspicious_headers = @ \o SuspiciousFinding(h),
                        ![frame(w)].results.encoding_issues =
                            @ \o check_encoding_chains(h.value),
                        ![frame(w)].results.content_anomalies =
                            @ \o (IF ip_results # <<>>
                                  THEN <<[ip_anomalies |-> ip_results]>> ELSE <<>>),
                        ![frame(w)].results.structural_anomalies =
                            @ \o StructuralAnomaliesOf(h),
                        ![frame(w)].results.risk_score = @ + HeaderRisk(h)]
                  /\ Advance(w, "headers", 0, NotReturned)
          ELSE /\ UNCHANGED frames
               /\ Advance(w, "user_agent", 0, NotReturned)
    /\ UNCHANGED <<Others, tables, inputs>>

\* analyze_headers: the checks of the User-Agent
AnalyzeUserAgent(w) ==
    /\ At(w, "analyze_headers", "user_agent")
    /\ LET ua == UserAgentAnomalies(Get(inputs[w], USER_AGENT, <<>>))
       IN frames' = [frames EXCEPT
             ![frame(w)].results.content_anomalies = @ \o ua,
             ![frame(w)].results.risk_score =
                 @ + SumSeq([k \in 1..Len(ua) |->
                               IF ua[k].type = "short_user_agent" THEN 200 ELSE 150])]
    /\ Advance(w, "mutation", 0, NotReturned)
    /\ UNCHANGED <<Others, tables, inputs>>

\* analyze_headers: the mutation score
AnalyzeMutation(w) ==
    /\ At(w, "analyze_headers", "mutation")
    /\ LET mutation == calculate_mutation_score(inputs[w])
       IN frames' = [frames EXCEPT
             ![frame(w)].results.mutation_indicators =
                 IF mutation.score > 0 THEN mutation.mutations ELSE @,
             ![frame(w)].results.has_mutation_score = mutation.score > 0,
             ![frame(w)].results.mutation_score = mutation.score,
             ![frame(w)].results.risk_score =
                 @ + (IF mutation.score > 0 THEN (mutation.score * 3) \div 10 ELSE 0)]
    /\ Advance(w, "timing", 0, NotReturned)
    /\ UNCHANGED <<Others, tables, inputs>>

\* analyze_headers: the timing anomalies at some reading of the clock, the
\* final min, the risk level, and the return
AnalyzeTiming(w) ==
    /\ At(w, "analyze_headers", "timing")
    /\ IF timing_raised(inputs[w]) # ""
       THEN /\ Advance(w, "done", 0, Raised(timing_raised(inputs[w])))
            /\ UNCHANGED frames
       ELSE \E now \in Clock :
               LET timing == check_timing_anomalies(inputs[w], now)
                   results == frames[frame(w)].results
                   risk_score == normalize_risk(results.risk_score
                                                  + (IF timing # <<>> THEN 100 ELSE 0))
                   report == [results EXCEPT
                                 !.content_anomalies =
                                     @ \o (IF timing # <<>>
                                           THEN <<[timing_anomalies |-> timing]>> ELSE <<>>),
                                 !.risk_score = risk_score,
                                 !.risk_level = risk_level_of(risk_score)]
               IN /\ frames' = [frames EXCEPT ![frame(w)].results = report]
                  /\ Advance(w, "done", now, report)
    /\ UNCHANGED <<Others, tables, inputs>>

NextWorkers ==
    \E w \in Workers :
       \/ ExtractPresence(w)
       \/ ExtractUserAgent(w)
       \/ ExtractStatistics(w)
       \/ ExtractStructure(w)
       \/ AnalyzeMissing(w)
       \/ AnalyzeHeader(w)
       \/ AnalyzeUserAgent(w)
       \/ AnalyzeMutation(w)
       \/ AnalyzeTiming(w)

SpecWorkers == InitWorkers /\ [][NextWorkers]_vars

\* the result of the call of worker w when no other call runs
Alone(w) ==
    IF workers[w].call = "extract_features"
    THEN extract_features(workers[w].arg)
    ELSE analyze_headers(workers[w].arg, workers[w].now)

\* C16: extract_features and analyze_headers share no mutable state and do
\* not modify their input: under every interleaving of the workers' steps,
\* the result of each finished call is the result of that call run alone, the
\* module-level tables are unchanged and every input HeaderSet is unchanged.
C16_Independent ==
    /\ tables = ModuleTables
    /\ \A w \in DOMAIN workers :
          /\ inputs[w] = workers[w].arg
          /\ workers[w].pc = "done" => workers[w].returned = Alone(w)

\* two calls of analyze_headers on different HeaderSets ran at the same time
\* and both have returned
C16_Witness ==
    /\ pc = "workers"
    /\ \E v, w \in Workers :
          /\ v # w
          /\ workers[v].call = "analyze_headers" /\ workers[w].call = "analyze_headers"
          /\ workers[v].arg # workers[w].arg
          /\ workers[v].overlapped /\ workers[w].overlapped
          /\ workers[v].pc = "done" /\ workers[w].pc = "done"


(***************************************************************************)
(* get_feature_names                                                       *)
(***************************************************************************)
\* str.replace for one character by another
replace(s, old, new) == <<>> \o [i \in 1..Len(s) |-> IF s[i] = old THEN new ELSE s[i]]

\* f"has_{header.lower().replace('-', '_')}"
has_name(header) == <<"h","a","s","_">> \o replace(lower(header), "-", "_")

expected_names == [i \in 1..Len(EXPECTED_HEADERS) |-> has_name(EXPECTED_HEADERS[i].header)]

get_feature_names_MinBeforeMax ==
    expected_names
    \o << <<"w","e","i","g","h","t","e","d","_","h","e","a","d","e","r","_","c","o","m","p","l","e","t","e","n","e","s","s">> >>
    \o << <<"u","a","_","l","e","n","g","t","h">>, <<"u","a","_","s","u","s","p","i","c","i","o","n","_","s","c","o","r","e">>, <<"u","a","_","l","e","g","i","t","i","m","a","t","e","_","s","c","o","r","e">>, <<"u","a","_","e","n","t","r","o","p","y">>,
          <<"u","a","_","c","h","a","r","_","d","i","v","e","r","s","i","t","y">> >>
    \o << <<"h","e","a","d","e","r","_","c","o","u","n","t">>, <<"a","v","g","_","v","a","l","u","e","_","l","e","n","g","t","h">>, <<"m","i","n","_","v","a","l","u","e","_","l","e","n","g","t","h">>, <<"m","a","x","_","v","a","l","u","e","_","l","e","n","g","t","h">>,
          <<"s","t","d","_","v","a","l","u","e","_","l","e","n","g","t","h">> >>
    \o << <<"a","v","g","_","e","n","t","r","o","p","y">>, <<"m","a","x","_","e","n","t","r","o","p","y">>, <<"e","n","c","o","d","i","n","g","_","a","n","o","m","a","l","y","_","s","c","o","r","e">> >>
    \o << <<"h","e","a","d","e","r","_","o","r","d","e","r","_","d","e","v","i","a","t","i","o","n">>, <<"c","a","s","e","_","c","o","n","s","i","s","t","e","n","c","y">> >>
    \o << <<"x","_","h","e","a","d","e","r","_","c","o","u","n","t">>, <<"d","u","p","l","i","c","a","t","e","_","h","e","a","d","e","r","_","s","c","o","r","e">>, <<"s","u","s","p","i","c","i","o","u","s","_","m","i","m","e","_","t","y","p","e">>,
          <<"i","n","j","e","c","t","i","o","n","_","a","t","t","e","m","p","t","_","s","c","o","r","e">> >>

get_feature_names ==
    expected_names
    \o << <<"w","e","i","g","h","t","e","d","_","h","e","a","d","e","r","_","c","o","m","p","l","e","t","e","n","e","s","s">> >>
    \o << <<"u","a","_","l","e","n","g","t","h">>, <<"u","a","_","s","u","s","p","i","c","i","o","n","_","s","c","o","r","e">>, <<"u","a","_","l","e","g","i","t","i","m","a","t","e","_","s","c","o","r","e">>, <<"u","a","_","e","n","t","r","o","p","y">>,
          <<"u","a","_","c","h","a","r","_","d","i","v","e","r","s","i","t","y">> >>
    \o << <<"h","e","a","d","e","r","_","c","o","u","n","t">>, <<"a","v","g","_","v","a","l","u","e","_","l","e","n","g","t","h">>, <<"m","a","x","_","v","a","l","u","e","_","l","e","n","g","t","h">>, <<"m","i","n","_","v","a","l","u","e","_","l","e","n","g","t","h">>,
          <<"s","t","d","_","v","a","l","u","e","_","l","e","n","g","t","h">> >>
    \o << <<"a","v","g","_","e","n","t","r","o","p","y">>, <<"m","a","x","_","e","n","t","r","o","p","y">>, <<"e","n","c","o","d","i","n","g","_","a","n","o","m","a","l","y","_","s","c","o","r","e">> >>
    \o << <<"h","e","a","d","e","r","_","o","r","d","e","r","_","d","e","v","i","a","t","i","o","n">>, <<"c","a","s","e","_","c","o","n","s","i","s","t","e","n","c","y">> >>
    \o << <<"x","_","h","e","a","d","e","r","_","c","o","u","n","t">>, <<"d","u","p","l","i","c","a","t","e","_","h","e","a","d","e","r","_","s","c","o","r","e">>, <<"s","u","s","p","i","c","i","o","u","s","_","m","i","m","e","_","t","y","p","e">>,
          <<"i","n","j","e","c","t","i","o","n","_","a","t","t","e","m","p","t","_","s","c","o","r","e">> >>

\* the quantities that the feature names denote, for the HeaderSet d
NamedQuantities(names, d) ==
    LET ua == Get(d, USER_AGENT, <<>>)
        lengths == ValueLengthStats(d)
        entropies == EntropySlots(d)
        structure == analyze_header_structure(d)
    IN <<>> \o [i \in 1..Len(names) |->
       LET name == names[i] IN
       CASE name = <<"w","e","i","g","h","t","e","d","_","h","e","a","d","e","r","_","c","o","m","p","l","e","t","e","n","e","s","s">> -> weighted_completeness(d)
         [] name = <<"u","a","_","l","e","n","g","t","h">> -> QInt(Len(ua))
         [] name = <<"u","a","_","s","u","s","p","i","c","i","o","n","_","s","c","o","r","e">> -> Q(ua_suspicion(ua), 10)
         [] name = <<"u","a","_","l","e","g","i","t","i","m","a","t","e","_","s","c","o","r","e">> -> legitimate_score(ua)
         [] name = <<"u","a","_","e","n","t","r","o","p","y">> -> Q(calculate_entropy(ua), 1000)
         [] name = <<"u","a","_","c","h","a","r","_","d","i","v","e","r","s","i","t","y">> -> calculate_char_diversity(ua)
         [] name = <<"h","e","a","d","e","r","_","c","o","u","n","t">> -> QInt(Len(d))
         [] name = <<"a","v","g","_","v","a","l","u","e","_","l","e","n","g","t","h">> -> lengths[1]
         [] name = <<"m","a","x","_","v","a","l","u","e","_","l","e","n","g","t","h">> -> lengths[2]
         [] name = <<"m","i","n","_","v","a","l","u","e","_","l","e","n","g","t","h">> -> lengths[3]
         [] name = <<"s","t","d","_","v","a","l","u","e","_","l","e","n","g","t","h">> -> lengths[4]
         [] name = <<"a","v","g","_","e","n","t","r","o","p","y">> -> entropies[1]
         [] name = <<"m","a","x","_","e","n","t","r","o","p","y">> -> entropies[2]
         [] name = <<"e","n","c","o","d","i","n","g","_","a","n","o","m","a","l","y","_","s","c","o","r","e">> -> entropies[3]
         [] name = <<"h","e","a","d","e","r","_","o","r","d","e","r","_","d","e","v","i","a","t","i","o","n">> -> structure.header_order_deviation
         [] name = <<"c","a","s","e","_","c","o","n","s","i","s","t","e","n","c","y">> -> structure.case_consistency
         [] name = <<"x","_","h","e","a","d","e","r","_","c","o","u","n","t">> -> QInt(x_header_count(d))
         [] name = <<"d","u","p","l","i","c","a","t","e","_","h","e","a","d","e","r","_","s","c","o","r","e">> -> QInt(duplicate_score(d))
         [] name = <<"s","u","s","p","i","c","i","o","u","s","_","m","i","m","e","_","t","y","p","e">> ->
                Q(mime_suspicion_score(Get(d, CONTENT_TYPE, <<>>)), 10)
         [] name = <<"i","n","j","e","c","t","i","o","n","_","a","t","t","e","m","p","t","_","s","c","o","r","e">> -> Q(injection_score(d), Max(Len(d), 1))
         [] OTHER ->
                IF \E k \in 1..Len(EXPECTED_HEADERS) :
                      /\ has_name(EXPECTED_HEADERS[k].header) = name
                      /\ HasKey(d, EXPECTED_HEADERS[k].header)
                THEN QInt(1) ELSE QInt(0)]

\* the largest number of headers of a HeaderSet whose vector is compared with
\* the name list
MaxNamed == 2

NamedHeaderSets ==
    UNION {{d \in [1..n -> Headers] : DistinctKeys(d)} : n \in 0..MaxNamed}

InitNamed ==
    /\ header_dict \in NamedHeaderSets
    /\ features = NotCalled
    /\ heuristics = NoReport
    /\ model_data = NoModel
    /\ votes = <<>>
    /\ ml_result = NoPrediction
    /\ result = NoResult
    /\ pc = "extract"
    /\ NoWorkers
    /\ NoBatch

SpecNamed == InitNamed /\ [][NextExtract]_vars

\* C17: get_feature_names() is parallel to extract_features: the two lists
\* have the same length, the names are distinct, the first names are
\* has_<header> for the expected headers in table order, and position i of
\* the name list names the quantity stored at position i of the vector.
C17_NamesParallel ==
    Returned =>
        /\ Len(get_feature_names) = Len(features.value)
        /\ \A i, j \in 1..Len(get_feature_names) :
              get_feature_names[i] = get_feature_names[j] => i = j
        /\ \A k \in 1..Len(EXPECTED_HEADERS) :
              /\ SubSeq(get_feature_names[k], 1, 4) = <<"h","a","s","_">>
              /\ features.value[k] =
                    (IF HasKey(header_dict, EXPECTED_HEADERS[k].header)
                     THEN QInt(1) ELSE QInt(0))
        /\ features.value = NamedQuantities(get_feature_names, header_dict)

\* a vector whose slots max_value_length and min_value_length differ and in
\* which an expected header is present
C17_Witness ==
    /\ Returned
    /\ features.value[24] # features.value[25]
    /\ get_feature_names[24] = <<"m","a","x","_","v","a","l","u","e","_","l","e","n","g","t","h">>
    /\ \E k \in 1..Len(EXPECTED_HEADERS) : features.value[k] = QInt(1)


(***************************************************************************)
(* The layout that tests/test_extract_features.py asserts: the one of the  *)
(* earlier extractor, src/extract_features.py                              *)
(***************************************************************************)
\* EXPECTED_HEADERS of src/extract_features.py
TESTED_HEADERS ==
    << HOST, USER_AGENT, ACCEPT, ACCEPT_ENCODING, CONNECTION, CONTENT_TYPE,
       X_FORWARDED_FOR, REFERER >>

KNOWN_BAD_UA_PATTERNS == << <<"c","u","r","l">>, <<"p","y","t","h","o","n">>, <<"w","g","e","t">>, <<"b","o","t">>, <<"s","c","r","a","p","y">>, <<"r","e","q","u","e","s","t","s">> >>

\* any(bad in ua.lower() for bad in KNOWN_BAD_UA_PATTERNS)
known_bad(ua) ==
    \E k \in 1..Len(KNOWN_BAD_UA_PATTERNS) : contains(lower(ua), KNOWN_BAD_UA_PATTERNS[k])

\* C18: in the vector of xweirdfor.extract_features.extract_features, slots
\* 0..7 are the presence flags of Host, User-Agent, Accept, Accept-Encoding,
\* Connection, Content-Type, X-Forwarded-For and Referer, slot 8 is the length
\* of the User-Agent value, slot 9 is 1 for a known-bad User-Agent, slot 10 is
\* the header count and slot 11 the average length of the header values
\* (slot k of the list is element k + 1 of the sequence).
C18_TestedLayout ==
    Returned =>
        LET ua == Get(header_dict, USER_AGENT, <<>>)
            n == Len(header_dict)
            total == SumSeq([i \in 1..n |-> Len(header_dict[i].value)])
        IN /\ \A k \in 1..Len(TESTED_HEADERS) :
                 features.value[k] =
                    (IF HasKey(header_dict, TESTED_HEADERS[k]) THEN QInt(1) ELSE QInt(0))
           /\ QEq(features.value[9], QInt(Len(ua)))
           /\ known_bad(ua) => QEq(features.value[10], QInt(1))
           /\ QEq(features.value[11], QInt(n))
           /\ QEq(features.value[12], IF n > 0 THEN Q(total, n) ELSE QInt(0))

\* a header name in the HTTP-standard convention: every hyphen-separated
\* segment starts with an uppercase letter and has no other uppercase letter
\* (empty segments are not looked at)
TitleCasedSegments(name) ==
    \A p \in 1..Len(split(name, "-")) :
       LET part == split(name, "-")[p]
       IN part # <<>> =>
             /\ part[1] \in UpperChars
             /\ \A k \in 2..Len(part) : part[k] \notin UpperChars

\* C24: the case-consistency slot is the fraction, out of all header names,
\* of the names written in the HTTP-standard convention, every
\* hyphen-separated segment title-cased; a HeaderSet whose names are all in
\* that convention scores 1.0, and the slot is 0 when there are no headers.
C24_CaseConsistency ==
    Returned =>
        LET n == Len(header_dict)
            conforming == Cardinality({i \in 1..n : TitleCasedSegments(header_dict[i].name)})
        IN QEq(features.value[SlotCaseConsistency],
               IF n = 0 THEN QInt(0) ELSE Q(conforming, n))


(***************************************************************************)
(* analyze_headers applied to small HeaderSets of flagged headers: short   *)
(* and empty User-Agent values, names of the suspicious-header table with  *)
(* a long value, case variants, near matches and unusual separators        *)
(***************************************************************************)
\* the largest number of headers of such a HeaderSet
MaxFlagged == 2

\* a value of more than 100 characters
LongValue == <<>> \o [i \in 1..101 |-> "a"]

FlaggedNames ==
    { USER_AGENT, HOST, <<"h","o","s","t">>, <<"H","o","s","t","s">>, ACCEPT, <<"X","-","T","e","s","t">>, <<"x","-","t","e","s","t">>, <<"X","-","D","e","b","u","g">>,
      <<"X","-","F","o","r","w","a","r","d","e","d","-","H","o","s","t">> }

FlaggedValuesFor(name) ==
    CASE name = USER_AGENT -> { EMPTY, <<"c","u","r","l","/","7">>, <<"0","1","2","3","4","5","6","7","8","9">> }
      [] name = HOST -> { <<"a">>, <<"a",":",":","b">> }
      [] name = ACCEPT -> { <<"a","|","b",";",";","c","|","d">> }
      [] name = <<"X","-","D","e","b","u","g">> -> { LongValue }
      [] OTHER -> { <<"a">> }

FlaggedHeaders ==
    UNION {{[name |-> nm, value |-> v] : v \in FlaggedValuesFor(nm)} : nm \in FlaggedNames}

FlaggedHeaderSets ==
    UNION {{d \in [1..n -> FlaggedHeaders] : DistinctKeys(d)} : n \in 0..MaxFlagged}

InitFlagged ==
    /\ header_dict \in FlaggedHeaderSets
    /\ features = NotCalled
    /\ heuristics = NoReport
    /\ model_data = NoModel
    /\ votes = <<>>
    /\ ml_result = NoPrediction
    /\ result = NoResult
    /\ pc = "analyze"
    /\ NoWorkers
    /\ NoBatch

SpecFlagged == InitFlagged /\ [][NextAnalyze]_vars

\* the HeaderSet with the value of the header `name` replaced
WithValue(d, name, value) ==
    [i \in 1..Len(d) |-> IF d[i].name = name THEN [name |-> name, value |-> value] ELSE d[i]]

\* the score before the final min for the HeaderSet d, with the mutation score
\* and the timing anomalies of the report
Unclamped(d, report) ==
    AccumulatedRisk(d, [score |-> report.mutation_score, mutations |-> <<>>],
                    TimingFindings(report))

\* C21: whenever a User-Agent header is present and its value is shorter than
\* 10 characters, the empty value included, a content anomaly
\* "short_user_agent" of severity "medium" is recorded and 0.2 is added to
\* the unclamped risk_score (measured against the same value padded with
\* blanks to 10 characters and more).
C21_ShortUserAgent ==
    (Analyzed /\ HasKey(header_dict, USER_AGENT)
              /\ Len(Get(header_dict, USER_AGENT, <<>>)) < 10) =>
        LET ua == Get(header_dict, USER_AGENT, <<>>)
            padded == WithValue(header_dict, USER_AGENT, ua \o <<" "," "," "," "," "," "," "," "," "," ">>)
        IN /\ \E f \in Range(heuristics.content_anomalies) :
                 /\ "type" \in DOMAIN f
                 /\ f.type = "short_user_agent"
                 /\ f.severity = "medium"
           /\ Unclamped(header_dict, heuristics) = Unclamped(padded, heuristics) + 200

\* high 0.4, medium 0.2, low 0.1, in thousandths
SeverityWeight(severity) ==
    CASE severity = "high" -> 400 [] severity = "medium" -> 200 [] severity = "low" -> 100

\* C22: every header whose stored name is an entry of the suspicious-header
\* table (exact, case-sensitive match) yields exactly one suspicious_headers
\* finding with the header name, the first 100 characters of its value and the
\* table's severity and reason, and adds the weight of that severity to the
\* unclamped risk_score (measured against the same header under a name that
\* is not in the table); other headers yield no finding.
C22_SuspiciousHeaders ==
    Analyzed =>
        /\ \A i \in 1..Len(header_dict) :
              LET h == header_dict[i]
                  found == {k \in 1..Len(heuristics.suspicious_headers) :
                               heuristics.suspicious_headers[k].header = h.name}
                  rows == {k \in 1..Len(SUSPICIOUS_HEADERS) :
                              SUSPICIOUS_HEADERS[k].header = h.name}
                  renamed == [name |-> <<"X","-","U","n","l","i","s","t","e","d">>, value |-> h.value]
              IN IF rows = {}
                 THEN found = {}
                 ELSE /\ Cardinality(found) = 1
                      /\ \A k \in found : \A r \in rows :
                            /\ heuristics.suspicious_headers[k].value =
                                  SubSeq(h.value, 1, Min(100, Len(h.value)))
                            /\ heuristics.suspicious_headers[k].severity =
                                  SUSPICIOUS_HEADERS[r].severity
                            /\ heuristics.suspicious_headers[k].reason =
                                  SUSPICIOUS_HEADERS[r].reason
                            /\ HeaderRisk(h) = HeaderRisk(renamed)
                                                 + SeverityWeight(SUSPICIOUS_HEADERS[r].severity)
        /\ \A k \in 1..Len(heuristics.suspicious_headers) :
              HasKey(header_dict, heuristics.suspicious_headers[k].header)

\* X-Debug with a value of more than 100 characters is found with the first
\* 100 of them, next to x-test, which is not found
C22_Witness ==
    /\ Analyzed
    /\ HasKey(header_dict, <<"x","-","t","e","s","t">>)
    /\ Len(Get(header_dict, <<"X","-","D","e","b","u","g">>, <<>>)) > 100
    /\ Len(heuristics.suspicious_headers) = 1
    /\ heuristics.suspicious_headers[1].header = <<"X","-","D","e","b","u","g">>
    /\ Len(heuristics.suspicious_headers[1].value) = 100
    /\ heuristics.suspicious_headers[1].severity = "medium"

\* str.count: the number of occurrences of sep in value from position i on,
\* counted without overlap
RECURSIVE Occurrences(_, _, _)
Occurrences(value, sep, i) ==
    LET starts == {j \in i..(Len(value) - Len(sep) + 1) :
                      SubSeq(value, j, j + Len(sep) - 1) = sep}
    IN IF starts = {}
       THEN 0
       ELSE LET first == CHOOSE j \in starts : \A k \in starts : j <= k
            IN 1 + Occurrences(value, sep, first + Len(sep))

\* C23: the mutation contribution to the unclamped risk_score is
\* 0.3 * min(1.0, 0.2 * c + 0.3 * t + 0.1 * u), with c the number of headers
\* whose case-folded name is a standard-header name in another casing, t the
\* number of (header, standard header) pairs with similarity strictly between
\* 0.7 and 1.0, and u the number of occurrences of the separators "|", ";;"
\* and "::" in the header values; mutation never adds more than 0.3.
C23_MutationContribution ==
    Analyzed =>
        LET c == Cardinality({i \in 1..Len(header_dict) :
                    /\ \E k \in 1..Len(standard_headers) :
                          lower(header_dict[i].name) = lower(standard_headers[k])
                    /\ \A k \in 1..Len(standard_headers) :
                          header_dict[i].name # standard_headers[k]})
            t == Cardinality({p \in (1..Len(header_dict)) \X (1..Len(standard_headers)) :
                    IsNearMatch(header_dict[p[1]].name, standard_headers[p[2]])})
            u == SumSeq([i \in 1..Len(header_dict) |->
                    Occurrences(header_dict[i].value, <<"|">>, 1)
                      + Occurrences(header_dict[i].value, <<";",";">>, 1)
                      + Occurrences(header_dict[i].value, <<":",":">>, 1)])
            score == Min(1000, 200 * c + 300 * t + 100 * u)
            timing == TimingFindings(heuristics)
            added == AccumulatedRisk(header_dict,
                                     [score |-> heuristics.mutation_score, mutations |-> <<>>],
                                     timing)
                       - AccumulatedRisk(header_dict, [score |-> 0, mutations |-> <<>>], timing)
        IN /\ heuristics.mutation_score = score
           /\ 10 * added = 3 * score
           /\ added <= 300


(***************************************************************************)
(* main: the loop over the header sets of the input file and the saved     *)
(* predictions                                                             *)
(***************************************************************************)
\* the largest number of header sets in the input file
MaxBatch == 2

\* the header sets a batch is made of: a clean one, the empty one, and one
\* with an empty header name, on which extract_features raises
BatchHeaderSets ==
    { Dict(<<HOST, USER_AGENT, ACCEPT, ACCEPT_ENCODING>>, <<<<"a">>, CLEAN_UA, <<"a">>, <<"a">>>>),
      EMPTY,
      Dict(<<EMPTY>>, <<<<"a">>>>) }

\* json.load of the input file: a list of header sets (a single dict is
\* wrapped into a list of one)
Batches == UNION {[1..n -> BatchHeaderSets] : n \in 0..MaxBatch}

\* the model files of a batch: a single model and an ensemble of two members
BatchModelFiles == {m \in ModelFiles : Len(m.models) = IF m.type = "single" THEN 1 ELSE 2}

\* the command lines: --save-output given or not, and the votes kept
\* (--verbose or --format text) or removed from the printed result
BatchArgs ==
    { [save_output |-> TRUE, format |-> "json", verbose |-> FALSE],
      [save_output |-> TRUE, format |-> "text", verbose |-> FALSE],
      [save_output |-> FALSE, format |-> "json", verbose |-> TRUE] }

InitBatch ==
    /\ args \in BatchArgs
    /\ header_sets \in Batches
    /\ index = 0
    /\ all_results = <<>>
    /\ output_data = NoOutput
    /\ model_data \in BatchModelFiles
    /\ header_dict = <<>>
    /\ features = NotCalled
    /\ heuristics = NoReport
    /\ votes = <<>>
    /\ ml_result = NoPrediction
    /\ result = NoResult
    /\ pc = "loop"
    /\ NoWorkers

\* for i, headers in enumerate(header_sets): the next round of the loop
NextSample ==
    /\ pc = "loop"
    /\ index < Len(header_sets)
    /\ header_dict' = header_sets[index + 1]
    /\ features' = NotCalled
    /\ heuristics' = NoReport
    /\ votes' = <<>>
    /\ ml_result' = NoPrediction
    /\ result' = NoResult
    /\ pc' = "extract"
    /\ UNCHANGED <<model_data, workerVars, args, header_sets, index, all_results, output_data>>

\* result.pop("votes") of the json output without --verbose; the popped dict
\* is the one all_results holds
printed(result_, args_) ==
    IF args_.format = "json" /\ ~args_.verbose /\ "votes" \in DOMAIN result_.ml_result
    THEN [result_ EXCEPT !.ml_result.votes = <<>>]
    ELSE result_

collect_Prepend(all_results_, result_) == <<result_>> \o all_results_

\* all_results.append(result)
collect(all_results_, result_) == Append(all_results_, result_)

\* the end of a round: the result is collected if saving, and printed
Collect ==
    /\ pc = "done"
    /\ result' = printed(result, args)
    /\ all_results' = IF args.save_output THEN collect(all_results, result') ELSE all_results
    /\ index' = index + 1
    /\ pc' = "loop"
    /\ UNCHANGED <<header_dict, features, heuristics, model_data, votes, ml_result,
                   workerVars, args, header_sets, output_data>>

\* sum(1 for r in all_results if r["final_verdict"] == verdict)
CountVerdict(results, verdict) ==
    Cardinality({k \in 1..Len(results) : results[k].final_verdict = verdict})

\* output_data of main: total_samples and summary of the metadata, and the
\* predictions
OutputData(results) ==
    [total_samples |-> Len(results),
     summary |-> [normal |-> CountVerdict(results, "normal"),
                  suspicious |-> CountVerdict(results, "suspicious"),
                  gray |-> CountVerdict(results, "gray")],
     predictions |-> results]

\* after the loop: the predictions are saved if --save-output was given
SaveOutput ==
    /\ pc = "loop"
    /\ index = Len(header_sets)
    /\ output_data' = IF args.save_output THEN OutputData(all_results) ELSE output_data
    /\ pc' = "exit"
    /\ UNCHANGED <<header_dict, features, heuristics, model_data, votes, ml_result, result,
                   workerVars, args, header_sets, index, all_results>>

NextBatch ==
    \/ NextSample
    \/ ExtractFeatures
    \/ PredictSingle
    \/ PredictMember
    \/ Aggregate
    \/ AnalyzeHeaders
    \/ CombineVerdict
    \/ Collect
    \/ SaveOutput

SpecBatch == InitBatch /\ [][NextBatch]_vars

Saved == pc = "exit" /\ args.save_output

\* C25: with output saving enabled, after the loop has processed the N header
\* sets of the input, the saved predictions list has N entries in input
\* order: entry i carries index i, the heuristic risk of header set i at some
\* reading of the clock, and a final_verdict among normal, suspicious and gray
\* that is the combined verdict of that entry's own model verdict and that
\* risk; the three summary counts add up to total_samples, which is N.
C25_SavedBatch ==
    Saved =>
       LET predictions == output_data.predictions
           summary == output_data.summary
           N == Len(header_sets)
       IN /\ Len(predictions) = N
          /\ \A k \in 1..N :
                /\ predictions[k].index = k - 1
                /\ predictions[k].final_verdict \in {"normal", "suspicious", "gray"}
                /\ \E now \in Clock :
                      LET report == analyze_headers(header_sets[k], now)
                      IN /\ predictions[k].heuristic_risk = report.risk_score
                         /\ predictions[k].heuristic_risk_level = report.risk_level
                         /\ predictions[k].final_verdict =
                                combined_verdict(model_data.type,
                                                 predictions[k].ml_result.verdict,
                                                 report.risk_score)
          /\ output_data.total_samples = N
          /\ summary.normal + summary.suspicious + summary.gray = N

\* two different header sets saved in their input order with different final
\* verdicts
C25_Witness ==
    /\ Saved
    /\ Len(header_sets) = 2
    /\ header_sets[1] # header_sets[2]
    /\ Len(output_data.predictions) = 2
    /\ output_data.predictions[1].heuristic_risk # output_data.predictions[2].heuristic_risk
    /\ output_data.predictions[1].final_verdict = "normal"
    /\ output_data.predictions[2].final_verdict = "suspicious"

(***************************************************************************)
(* Claims on an ensemble without members                                   *)
(***************************************************************************)
NoMembers == model_data.type = "ensemble" /\ model_data.models = <<>>

\* C26: for an ensemble with zero member models, predict_ensemble_model
\* reports the verdict "normal" with confidence 1.0 and the vote summary
\* "0/0 suspicious", no division by the zero vote total taking place, and the
\* final verdict of main is "normal" whatever the heuristic risk_score is.
C26_NoMembers ==
    (NoMembers /\ Aggregated) =>
        /\ votes = <<>>
        /\ ml_result.verdict = "normal"
        /\ ml_result.confidence[2] > 0
        /\ QEq(ml_result.confidence, Q(1, 1))
        /\ ml_result.vote_summary = [suspicious_votes |-> 0, total_votes |-> 0]
        /\ Combined => result.final_verdict = "normal"

\* an ensemble without members and a header set of high risk: "normal"
C26_Witness ==
    /\ NoMembers
    /\ Combined
    /\ heuristics.risk_score > 700
    /\ heuristics.risk_level = "high"
    /\ result.final_verdict = "normal"

(***************************************************************************)
(* The insertion order of the headers                                      *)
(***************************************************************************)
\* the largest number of headers of a permuted header set
MaxPermuted == 3

\* headers whose handling walks the dict in insertion order: two names that
\* differ in case only, listed names of three severities with values of
\* different lengths and entropies, an unusual separator, an injected value
PermutedHeaders ==
    { [name |-> HOST, value |-> <<"a">>],
      [name |-> <<"h","o","s","t">>, value |-> <<"b","b">>],
      [name |-> <<"X","-","T","e","s","t">>, value |-> <<"a","|","b">>],
      [name |-> <<"X","-","D","e","b","u","g">>, value |-> <<"a","b","c","d","e","f","g"," ","h","i","j","k">>],
      [name |-> <<"X","-","F","o","r","w","a","r","d","e","d","-","H","o","s","t">>, value |-> <<"e","v","i","l",CR,LF,"S","e","t","-","C","o","o","k","i","e",":"," ","x","=","1">>] }

PermutedHeaderSets ==
    UNION {{d \in [1..n -> PermutedHeaders] : DistinctKeys(d)} : n \in 0..MaxPermuted}

\* a caller that passes the header set to extract_features or to
\* analyze_headers
InitPermuted ==
    /\ header_dict \in PermutedHeaderSets
    /\ features = NotCalled
    /\ heuristics = NoReport
    /\ model_data = NoModel
    /\ votes = <<>>
    /\ ml_result = NoPrediction
    /\ result = NoResult
    /\ pc \in {"extract", "analyze"}
    /\ NoWorkers
    /\ NoBatch

NextPermuted ==
    \/ ExtractFeatures
    \/ AnalyzeHeaders

SpecPermuted == InitPermuted /\ [][NextPermuted]_vars

\* the header set with its headers inserted in the order p
Permuted(d, p) == [i \in 1..Len(d) |-> d[p[i]]]

Reorderings(d) == {Permuted(d, p) : p \in Permutations(1..Len(d))}

====
